---- MODULE Spec2Model ----
(***************************************************************************)
(* Verification model of @vcita/event-bus-nestjs: the event publisher, the *)
(* subscription decorators (topology planning and assertion), the          *)
(* processing interceptor and the retry / error-exchange dispatcher, run   *)
(* against a model of a topic-exchange broker with dead-lettering.         *)
(*                                                                         *)
(* Strings are sequences of one-character strings so that toLowerCase,     *)
(* trim, split and concatenation are computed, not assumed.  JavaScript    *)
(* values that may be undefined or null are tagged records.                *)
(***************************************************************************)
EXTENDS Integers, Sequences, FiniteSets, TLC

\* ------------------------------------------------------------------------
\* JavaScript values
\* ------------------------------------------------------------------------
Undef == [t |-> "undefined"]
Null == [t |-> "null"]
Obj == [t |-> "object"]
Str(s) == [t |-> "string", v |-> s]
Num(n) == [t |-> "number", v |-> n]
NaN == [t |-> "NaN"]

IsStr(x) == x.t = "string"
IsNum(x) == x.t = "number"
IsNullish(x) == x.t \in {"undefined", "null"}

\* JavaScript truthiness: undefined, null, NaN, '' and 0 are falsy.
Truthy(x) ==
  CASE x.t \in {"undefined", "null", "NaN"} -> FALSE
    [] x.t = "string" -> Len(x.v) > 0
    [] x.t = "number" -> x.v # 0
    [] OTHER -> TRUE

\* a ?? b
Coalesce(a, b) == IF IsNullish(a) THEN b ELSE a

\* a || b
OrElse(a, b) == IF Truthy(a) THEN a ELSE b

\* String.prototype.toLowerCase, one character
LowerChar(c) ==
  CASE c = "A" -> "a" [] c = "B" -> "b" [] c = "C" -> "c" [] c = "D" -> "d"
    [] c = "E" -> "e" [] c = "P" -> "p" [] c = "S" -> "s" [] c = "U" -> "u"
    [] c = "R" -> "r" [] c = "Y" -> "y"
    [] OTHER -> c

toLowerCase(s) == [i \in 1..Len(s) |-> LowerChar(s[i])]

RECURSIVE trimStart(_)
trimStart(s) == IF s # <<>> /\ Head(s) = " " THEN trimStart(Tail(s)) ELSE s

RECURSIVE trimEnd(_)
trimEnd(s) ==
  IF s # <<>> /\ s[Len(s)] = " " THEN trimEnd(SubSeq(s, 1, Len(s) - 1)) ELSE s

\* String.prototype.trim
trim(s) == trimEnd(trimStart(s))

Dot == <<".">>

\* ------------------------------------------------------------------------
\* Publisher: EventBusPublisher and EventBuilder
\* ------------------------------------------------------------------------
created == <<"c", "r", "e", "a", "t", "e", "d">>
read == <<"r", "e", "a", "d">>
updated == <<"u", "p", "d", "a", "t", "e", "d">>
deleted == <<"d", "e", "l", "e", "t", "e", "d">>

PUBLISH_EVENT_TYPES == {created, read, updated, deleted}

ErrEntityType == "entityType is required and cannot be empty"
ErrEventType == "eventType is required and cannot be empty"
ErrEventTypeInvalid == "eventType is not valid. Must be one of: created, read, updated, deleted"
ErrData == "data is required"
ErrActor == "actor is required"
ErrPrevData == "prevData is required"
ErrTypeError == "TypeError: Cannot read properties of undefined (reading 'toLowerCase')"
Ok == "ok"

\* !x?.trim()
BlankString(x) == IF IsStr(x) THEN Len(trim(x.v)) = 0 ELSE TRUE

validatePublishOptions_swapped(o) ==
  IF BlankString(o.entityType) THEN ErrEntityType
  ELSE IF BlankString(o.eventType) THEN ErrEventType
  ELSE IF IsNullish(o.data) THEN ErrData
  ELSE IF o.eventType.v \notin PUBLISH_EVENT_TYPES THEN ErrEventTypeInvalid
  ELSE IF ~Truthy(o.actor) THEN ErrActor
  ELSE IF o.eventType.v = updated /\ IsNullish(o.prevData) THEN ErrPrevData
  ELSE Ok

\* EventBusPublisher.validatePublishOptions: the message of the error thrown,
\* or Ok when it returns normally.
validatePublishOptions(o) ==
  IF BlankString(o.entityType) THEN ErrEntityType
  ELSE IF BlankString(o.eventType) THEN ErrEventType
  ELSE IF o.eventType.v \notin PUBLISH_EVENT_TYPES THEN ErrEventTypeInvalid
  ELSE IF IsNullish(o.data) THEN ErrData
  ELSE IF ~Truthy(o.actor) THEN ErrActor
  ELSE IF o.eventType.v = updated /\ IsNullish(o.prevData) THEN ErrPrevData
  ELSE Ok

buildRoutingKey_nolower(domain, entityType, eventType) ==
  toLowerCase(domain) \o Dot \o entityType \o Dot \o toLowerCase(eventType)

\* EventBuilder.buildRoutingKey
buildRoutingKey(domain, entityType, eventType) ==
  toLowerCase(domain) \o Dot \o toLowerCase(entityType) \o Dot \o toLowerCase(eventType)

buildPayload_alwaysPrev(entityType, data, prevData, version) ==
  [data |-> data,
   schema_ref |-> Str(entityType \o <<"@">> \o version),
   prev_data |-> prevData]

\* EventBuilder.buildPayload: prev_data is a field of the payload only when
\* prevData is not undefined (a null prevData is kept).
buildPayload(entityType, data, prevData, version) ==
  LET payload == [data |-> data,
                  schema_ref |-> Str(entityType \o <<"@">> \o version)]
  IN IF prevData # Undef THEN ("prev_data" :> prevData) @@ payload ELSE payload

V1 == <<"v", "1">>

\* EventBuilder.buildEvent
buildEvent(o, sourceService, traceId) ==
  LET version == IF o.version = Undef THEN V1 ELSE o.version.v IN
  [headers |-> [entity_type |-> o.entityType,
                event_type |-> o.eventType,
                source_service |-> sourceService,
                trace_id |-> traceId,
                actor |-> o.actor,
                version |-> Str(version)],
   payload |-> buildPayload(o.entityType.v, o.data, o.prevData, version)]

\* ------------------------------------------------------------------------
\* Bounds and sample values
\* ------------------------------------------------------------------------
MaxMsgs == 1
MaxRetries == 2

SubIds == {1}
MsgIds == 1..MaxMsgs

AppName == <<"a", "p", "p">>
MainExchange == <<"e", "v", "e", "n", "t", "_", "b", "u", "s">>
LegacyExchange == <<"l", "e", "g", "a", "c", "y", "_", "e", "x">>
DefaultDomain == <<"D", "e", "f">>
User == <<"U", "s", "e", "r">>
Pay == <<"P", "a", "y">>

VARIABLES
  config,      \* eventBusConfig, the ConfigService values and DISABLE_EVENT_BUS
  pubCall,     \* the last EventBusPublisher.publish call: options and result
  pubLog,      \* the channelWrapper.publish calls made by that call
  exchanges,   \* broker: names of the declared exchanges
  queues,      \* broker: queue name -> [args, msgs]
  bindings,    \* broker: set of [exchange, queue, pattern]
  subs,        \* subscription id -> registration state
  dlv,         \* <<subscription id, message id>> -> delivery state
  nextId       \* id of the next message published to the broker

vars == <<config, pubCall, pubLog, exchanges, queues, bindings, subs, dlv, nextId>>

brokerVars == <<exchanges, queues, bindings>>
pubVars == <<pubCall, pubLog>>

\* ------------------------------------------------------------------------
\* Broker: topic exchanges, queues, dead-lettering
\* ------------------------------------------------------------------------
\* String.prototype.split('.')
RECURSIVE SplitFrom(_, _)
SplitFrom(s, acc) ==
  IF s = <<>> THEN <<acc>>
  ELSE IF Head(s) = "." THEN <<acc>> \o SplitFrom(Tail(s), <<>>)
  ELSE SplitFrom(Tail(s), Append(acc, Head(s)))

split(s) == SplitFrom(s, <<>>)

\* Topic-exchange matching on words: '*' is exactly one word, '#' is zero
\* or more words.
RECURSIVE MatchWords(_, _)
MatchWords(p, k) ==
  IF p = <<>> THEN k = <<>>
  ELSE IF Head(p) = <<"#">>
    THEN MatchWords(Tail(p), k) \/ (k # <<>> /\ MatchWords(p, Tail(k)))
  ELSE IF k = <<>> THEN FALSE
  ELSE (Head(p) = <<"*">> \/ Head(p) = Head(k)) /\ MatchWords(Tail(p), Tail(k))

TopicMatch(pattern, key) == MatchWords(split(pattern), split(key))

\* The queues an exchange routes a routing key to.
Route(ex, rk) ==
  {b.queue : b \in {x \in bindings : x.exchange = ex /\ TopicMatch(x.pattern, rk)}}

\* The queues after the broker has published msg to exchange ex: a copy is
\* appended to every queue bound with a matching pattern; a message to an
\* undeclared exchange or with no matching binding is discarded.
Enqueued(qs, ex, msg) ==
  IF ex \notin exchanges THEN qs
  ELSE [q \in DOMAIN qs |->
          IF q \in Route(ex, msg.rk)
          THEN [qs[q] EXCEPT !.msgs = Append(@, msg)]
          ELSE qs[q]]

\* A queue's argument, undefined when the queue was declared without it.
Arg(q, name) ==
  IF name \in DOMAIN queues[q].arguments THEN queues[q].arguments[name] ELSE Undef

\* The message as the broker dead-letters it from queue q: the x-death entry
\* for (q, reason) is created with count 1 or has its count incremented and
\* moves to the front; x-first-death-queue is set by the first dead-lettering.
DeadLettered(msg, q, reason) ==
  LET xd == msg.headers.xdeath
      same(e) == e.queue = q /\ e.reason = reason
      idx == {i \in 1..Len(xd) : same(xd[i])}
      old == IF idx = {} THEN 0 ELSE xd[CHOOSE i \in idx : TRUE].count
      rest == SelectSeq(xd, LAMBDA e : ~same(e))
  IN [msg EXCEPT
        !.headers.xdeath = <<[queue |-> q, reason |-> reason, count |-> old + 1]>> \o rest,
        !.headers.firstDeathQueue = IF @ = Undef THEN Str(q) ELSE @]

\* The queues after msg, taken from queue q, is dead-lettered: it is
\* republished to q's dead-letter exchange under its own routing key, and
\* discarded when q has none or the exchange does not exist.
AfterDeadLetter(qs, msg, q, reason) ==
  LET dlx == Arg(q, "x-dead-letter-exchange") IN
  IF IsStr(dlx) THEN Enqueued(qs, dlx.v, DeadLettered(msg, q, reason)) ELSE qs

\* {...base, ...over}
Spread(base, over) == IF over = Undef THEN base ELSE over @@ base

\* channel.assertQueue succeeds when the queue is new or was declared with
\* the same options; otherwise the broker closes the channel (406).
CanAssertQueue(name, options) ==
  IF name \notin DOMAIN queues THEN TRUE
  ELSE queues[name].durable = options.durable /\ queues[name].arguments = options.arguments

AssertedQueue(qs, name, options) ==
  IF name \in DOMAIN qs THEN qs
  ELSE qs @@ (name :> [durable |-> options.durable,
                       arguments |-> options.arguments,
                       msgs |-> <<>>])

Binding(ex, q, pattern) == [exchange |-> ex, queue |-> q, pattern |-> pattern]

\* ------------------------------------------------------------------------
\* Subscription decorators: SubscribeTo and LegacySubscribeTo
\* ------------------------------------------------------------------------
SufRetry == <<".", "r", "e", "t", "r", "y">>
SufRequeue == <<".", "r", "e", "q", "u", "e", "u", "e">>
SufError == <<".", "e", "r", "r", "o", "r">>
LegacyPrefix == <<"l", "e", "g", "a", "c", "y", ".">>
Hash == <<"#">>
\* 1000 * 60 * 60 * 24 * 30 ms, kept as 30 units of one day (TLC integers
\* are 32 bits wide).
MsPerDay == 1000 * 60 * 60 * 24
ErrorQueueTtlDays == 30
ErrorQueueTtl == [t |-> "number", v |-> ErrorQueueTtlDays, unit |-> MsPerDay]

\* retry?.count and retry?.delayMs
RetryCount(o) == IF o.retry = Undef THEN Undef ELSE o.retry.count
RetryDelay(o) == IF o.retry = Undef THEN Undef ELSE o.retry.delayMs

validateOptions_missingOnly(o) ==
  ~IsNullish(o.domain) /\ ~IsNullish(o.entity) /\ ~IsNullish(o.action)

\* validateOptions (standard): TRUE when it returns, FALSE when it throws.
validateOptions(o) == Truthy(o.domain) /\ Truthy(o.entity) /\ Truthy(o.action)

validateLegacyOptions_any(o) == o.routingKey # Undef

\* validateLegacyOptions: TRUE when it returns, FALSE when it throws.
validateLegacyOptions(o) == Truthy(o.routingKey)

getRoutingKey_asGiven(domain, entity, action) ==
  domain \o Dot \o entity \o Dot \o action

\* getRoutingKey
getRoutingKey(domain, entity, action) ==
  toLowerCase(domain) \o Dot \o toLowerCase(entity) \o Dot \o toLowerCase(action)

QueueConfigFor_sharedRequeue(o, routingKey, queueName) ==
  [routingKey |-> routingKey,
   queueName |-> queueName,
   retryExchangeName |-> queueName \o SufRetry,
   retryQueueName |-> queueName \o SufRetry,
   requeueExchangeName |-> config.appName \o SufRequeue,
   errorExchangeName |-> queueName \o SufError,
   errorQueueName |-> queueName \o SufError,
   retryPolicy |-> [maxRetries |-> Coalesce(RetryCount(o), config.defaultMaxRetries),
                    delayMs |-> Coalesce(RetryDelay(o), config.defaultRetryDelayMs)]]

QueueConfigFor(o, routingKey, queueName) ==
  [routingKey |-> routingKey,
   queueName |-> queueName,
   retryExchangeName |-> queueName \o SufRetry,
   retryQueueName |-> queueName \o SufRetry,
   requeueExchangeName |-> queueName \o SufRequeue,
   errorExchangeName |-> queueName \o SufError,
   errorQueueName |-> queueName \o SufError,
   retryPolicy |-> [maxRetries |-> Coalesce(RetryCount(o), config.defaultMaxRetries),
                    delayMs |-> Coalesce(RetryDelay(o), config.defaultRetryDelayMs)]]

buildQueueConfig_numbered(o) ==
  QueueConfigFor(o,
    getRoutingKey(o.domain.v, o.entity.v, o.action.v),
    OrElse(o.queue,
           Str(config.appName \o Dot \o o.domain.v \o Dot \o o.entity.v \o Dot \o o.action.v
                 \o (IF exchanges = {} THEN <<>> ELSE <<"2">>))).v)

buildQueueConfig_lowercased(o) ==
  QueueConfigFor(o,
    getRoutingKey(o.domain.v, o.entity.v, o.action.v),
    OrElse(o.queue,
           Str(config.appName \o Dot \o getRoutingKey(o.domain.v, o.entity.v, o.action.v))).v)

\* buildQueueConfig (standard)
buildQueueConfig(o) ==
  QueueConfigFor(o,
    getRoutingKey(o.domain.v, o.entity.v, o.action.v),
    OrElse(o.queue,
           Str(config.appName \o Dot \o o.domain.v \o Dot \o o.entity.v \o Dot \o o.action.v)).v)

\* buildLegacyQueueConfig
buildLegacyQueueConfig(o) ==
  QueueConfigFor(o,
    o.routingKey.v,
    OrElse(o.queue, Str(LegacyPrefix \o config.appName \o Dot \o o.routingKey.v)).v)

buildQueueOptions_noRequeue(o, queueConfig) ==
  [retryQueueOptions |->
     [durable |-> TRUE,
      arguments |-> [a \in {"x-message-ttl"} |-> queueConfig.retryPolicy.delayMs]],
   errorQueueOptions |->
     [durable |-> TRUE,
      arguments |-> Spread([a \in {"x-message-ttl"} |-> ErrorQueueTtl],
                           o.errorQueueOptions)],
   mainQueueOptions |->
     [durable |-> TRUE,
      arguments |-> Spread([a \in {"x-dead-letter-exchange"} |->
                              Str(queueConfig.retryExchangeName)],
                           o.queueOptions)]]

\* EventBusDecoratorUtils.buildQueueOptions
buildQueueOptions(o, queueConfig) ==
  [retryQueueOptions |->
     [durable |-> TRUE,
      arguments |-> [a \in {"x-message-ttl", "x-dead-letter-exchange"} |->
                       IF a = "x-message-ttl" THEN queueConfig.retryPolicy.delayMs
                       ELSE Str(queueConfig.requeueExchangeName)]],
   errorQueueOptions |->
     [durable |-> TRUE,
      arguments |-> Spread([a \in {"x-message-ttl"} |-> ErrorQueueTtl],
                           o.errorQueueOptions)],
   mainQueueOptions |->
     [durable |-> TRUE,
      arguments |-> Spread([a \in {"x-dead-letter-exchange"} |->
                              Str(queueConfig.retryExchangeName)],
                           o.queueOptions)]]

buildRabbitConfig_plainQueue(exchange, queueConfig, mainQueueOptions) ==
  [exchange |-> exchange,
   routingKey |-> queueConfig.routingKey,
   queue |-> queueConfig.queueName,
   queueOptions |-> [durable |-> TRUE, arguments |-> <<>>],
   createQueueIfNotExists |-> TRUE]

\* EventBusDecoratorUtils.buildRabbitConfig
buildRabbitConfig(exchange, queueConfig, mainQueueOptions) ==
  [exchange |-> exchange,
   routingKey |-> queueConfig.routingKey,
   queue |-> queueConfig.queueName,
   queueOptions |-> mainQueueOptions,
   createQueueIfNotExists |-> TRUE]

\* The context the consumer callback is called in: it belongs to no
\* delivery and carries the service's own tag, no event type and no trace id.
NoTags == [service |-> Undef, event_type |-> "none", trace_id |-> Undef]
BootContext ==
  [named_tags |-> [NoTags EXCEPT !.service = Str(<<"a", "p", "p">>)]]

Unregistered ==
  [status |-> "unregistered", options |-> Undef, eventType |-> "none",
   queueConfig |-> Undef, queueOptions |-> Undef, rabbitConfig |-> Undef,
   infra |-> "idle", infraPc |-> 0, connects |-> 0, consuming |-> FALSE,
   context |-> BootContext, closes |-> <<>>, rejected |-> FALSE]

\* The decorator factory ran to completion for options o of the given kind.
Registered(o, kind, queueConfig, exchange) ==
  LET qo == buildQueueOptions(o, queueConfig) IN
  [status |-> "registered", options |-> o, eventType |-> kind,
   queueConfig |-> queueConfig, queueOptions |-> qo,
   rabbitConfig |-> buildRabbitConfig(exchange, queueConfig, qo.mainQueueOptions),
   infra |-> "connecting", infraPc |-> 0, connects |-> 1, consuming |-> FALSE,
   context |-> BootContext, closes |-> <<>>, rejected |-> FALSE]

handleDisabledEventBus_connects(o) ==
  [Unregistered EXCEPT !.status = "disabled", !.options = o, !.connects = 1]

\* EventBusDecoratorUtils.handleDisabledEventBus: the decorator returned
\* hands the method descriptor back untouched.
handleDisabledEventBus(o) ==
  [Unregistered EXCEPT !.status = "disabled", !.options = o]

\* SubscribeTo(options): disabled flag, validation, planning, start of the
\* infrastructure assertion (not awaited), handler registration.
SubscribeTo(s, o) ==
  /\ subs[s].status = "unregistered"
  /\ subs' = [subs EXCEPT ![s] =
       IF config.disabled THEN handleDisabledEventBus(o)
       ELSE IF ~validateOptions(o) THEN [Unregistered EXCEPT !.status = "threw", !.options = o]
       ELSE Registered(o, "standard", buildQueueConfig(o), config.exchange)]
  /\ UNCHANGED <<config, pubVars, brokerVars, dlv, nextId>>

\* LegacySubscribeTo(options)
LegacySubscribeTo(s, o) ==
  /\ subs[s].status = "unregistered"
  /\ subs' = [subs EXCEPT ![s] =
       IF config.disabled THEN handleDisabledEventBus(o)
       ELSE IF ~validateLegacyOptions(o)
         THEN [Unregistered EXCEPT !.status = "threw", !.options = o]
       ELSE Registered(o, "legacy", buildLegacyQueueConfig(o), config.legacyExchange)]
  /\ UNCHANGED <<config, pubVars, brokerVars, dlv, nextId>>

\* ------------------------------------------------------------------------
\* assertSubscriberRetryInfrastructure and the consumer
\* ------------------------------------------------------------------------
SetupSteps == 9

InfraSetup_bindFirst(s) ==
  LET r == subs[s]
      qc == r.queueConfig
      qo == r.queueOptions
      step == r.infraPc + 1
      q == CASE step = 3 -> qc.retryQueueName
             [] step = 5 -> qc.queueName
             [] OTHER -> qc.errorQueueName
      opts == CASE step = 3 -> qo.retryQueueOptions
                [] step = 5 -> qo.mainQueueOptions
                [] OTHER -> qo.errorQueueOptions
  IN
  /\ r.infra = "connecting"
  /\ r.infraPc < SetupSteps
  /\ IF step \in {3, 5, 8} /\ ~CanAssertQueue(q, opts)
     THEN /\ subs' = [subs EXCEPT ![s].infra = "failed"]
          /\ UNCHANGED brokerVars
     ELSE /\ subs' = [subs EXCEPT ![s].infraPc = step]
          /\ exchanges' =
               CASE step = 1 -> exchanges \cup {qc.retryExchangeName}
                 [] step = 4 -> exchanges \cup {qc.requeueExchangeName}
                 [] step = 7 -> exchanges \cup {qc.errorExchangeName}
                 [] OTHER -> exchanges
          /\ queues' = IF step \in {3, 5, 8} THEN AssertedQueue(queues, q, opts) ELSE queues
          /\ bindings' =
               CASE step = 2 ->
                      bindings \cup {Binding(qc.retryExchangeName, qc.retryQueueName, Hash)}
                 [] step = 6 ->
                      bindings \cup {Binding(qc.requeueExchangeName, qc.queueName, qc.routingKey)}
                 [] step = 9 ->
                      bindings \cup {Binding(qc.errorExchangeName, qc.errorQueueName, qc.routingKey)}
                 [] OTHER -> bindings
  /\ UNCHANGED <<config, pubVars, dlv, nextId>>

\* The setup callback of assertSubscriberRetryInfrastructure, one awaited
\* broker call per step.
InfraSetup(s) ==
  LET r == subs[s]
      qc == r.queueConfig
      qo == r.queueOptions
      step == r.infraPc + 1
      q == CASE step = 2 -> qc.retryQueueName
             [] step = 5 -> qc.queueName
             [] OTHER -> qc.errorQueueName
      opts == CASE step = 2 -> qo.retryQueueOptions
                [] step = 5 -> qo.mainQueueOptions
                [] OTHER -> qo.errorQueueOptions
  IN
  /\ r.infra = "connecting"
  /\ r.infraPc < SetupSteps
  /\ IF step \in {2, 5, 8} /\ ~CanAssertQueue(q, opts)
     THEN /\ subs' = [subs EXCEPT ![s].infra = "failed"]
          /\ UNCHANGED brokerVars
     ELSE /\ subs' = [subs EXCEPT ![s].infraPc = step]
          /\ exchanges' =
               CASE step = 1 -> exchanges \cup {qc.retryExchangeName}
                 [] step = 4 -> exchanges \cup {qc.requeueExchangeName}
                 [] step = 7 -> exchanges \cup {qc.errorExchangeName}
                 [] OTHER -> exchanges
          /\ queues' = IF step \in {2, 5, 8} THEN AssertedQueue(queues, q, opts) ELSE queues
          /\ bindings' =
               CASE step = 3 ->
                      bindings \cup {Binding(qc.retryExchangeName, qc.retryQueueName, Hash)}
                 [] step = 6 ->
                      bindings \cup {Binding(qc.requeueExchangeName, qc.queueName, qc.routingKey)}
                 [] step = 9 ->
                      bindings \cup {Binding(qc.errorExchangeName, qc.errorQueueName, qc.routingKey)}
                 [] OTHER -> bindings
  /\ UNCHANGED <<config, pubVars, dlv, nextId>>

\* waitForConnect resolves once the setup has run; the channel wrapper and
\* the connection are then closed.
finallyBlock_oneTry(channelThrows, connectionThrows) ==
  IF channelThrows
  THEN [closes |-> <<[target |-> "channel", threw |-> TRUE]>>, rejected |-> TRUE]
  ELSE [closes |-> <<[target |-> "channel", threw |-> FALSE],
                     [target |-> "connection", threw |-> connectionThrows]>>,
        rejected |-> connectionThrows]

\* The finally block of assertSubscriberRetryInfrastructure: close the
\* channel wrapper, then the connection, each in a try/catch of its own
\* that only logs.  closes lists the close calls made and whether each
\* threw; rejected tells whether an error leaves the function.
finallyBlock(channelThrows, connectionThrows) ==
  [closes |-> <<[target |-> "channel", threw |-> channelThrows],
                [target |-> "connection", threw |-> connectionThrows]>>,
   rejected |-> FALSE]

\* waitForConnect has settled, with the setup done or failed; the finally
\* block runs with close calls that may throw.
InfraFinally(s, channelThrows, connectionThrows) ==
  LET done == finallyBlock(channelThrows, connectionThrows) IN
  /\ \/ subs[s].infra = "connecting" /\ subs[s].infraPc = SetupSteps
     \/ subs[s].infra = "failed"
  /\ subs' = [subs EXCEPT ![s].infra = "closed", ![s].closes = done.closes,
                          ![s].rejected = done.rejected]
  /\ UNCHANGED <<config, pubVars, brokerVars, dlv, nextId>>

InfraClose(s) ==
  /\ subs[s].infra = "connecting"
  /\ subs[s].infraPc = SetupSteps
  /\ InfraFinally(s, FALSE, FALSE)
  /\ UNCHANGED <<config, pubVars, brokerVars, dlv, nextId>>

\* A broker call of the setup rejects (broker unreachable, channel closed,
\* precondition failed): the remaining steps of the setup do not run.
InfraFail(s) ==
  /\ subs[s].infra = "connecting"
  /\ subs[s].infraPc < SetupSteps
  /\ subs' = [subs EXCEPT ![s].infra = "failed"]
  /\ UNCHANGED <<config, pubVars, brokerVars, dlv, nextId>>

InfraAbandon_reconnects(s) ==
  /\ subs[s].infra = "failed"
  /\ subs[s].connects = 1
  /\ subs' = [subs EXCEPT ![s].infra = "connecting", ![s].infraPc = 0,
                          ![s].connects = @ + 1]
  /\ UNCHANGED <<config, pubVars, brokerVars, dlv, nextId>>

\* The catch and finally blocks of assertSubscriberRetryInfrastructure, and
\* the .catch of assertRetryInfrastructure: the failure is logged, nothing
\* is rethrown, the channel wrapper and the connection are closed.
InfraAbandon(s) ==
  /\ subs[s].infra = "failed"
  /\ InfraFinally(s, FALSE, FALSE)

\* Application bootstrap: the RabbitMQ module asserts the configured
\* exchanges, then creates the handler's queue (createQueueIfNotExists),
\* binds it to the handler's exchange and starts consuming.  The decorator
\* does not await the infrastructure assertion, so nothing orders the two.
StartConsuming(s) ==
  LET rc == subs[s].rabbitConfig IN
  /\ subs[s].status = "registered"
  /\ ~subs[s].consuming
  /\ CanAssertQueue(rc.queue, rc.queueOptions)
  /\ exchanges' = exchanges \cup {config.exchange, config.legacyExchange}
  /\ queues' = AssertedQueue(queues, rc.queue, rc.queueOptions)
  /\ bindings' = bindings \cup {Binding(rc.exchange, rc.queue, rc.routingKey)}
  /\ subs' = [subs EXCEPT ![s].consuming = TRUE]
  /\ UNCHANGED <<config, pubVars, dlv, nextId>>

\* The schedule in which the infrastructure assertion has finished before
\* the application bootstrap starts the consumer.
ConsumerStart(s) ==
  LET rc == subs[s].rabbitConfig IN
  /\ subs[s].status = "registered"
  /\ ~subs[s].consuming
  /\ subs[s].infra = "closed"
  /\ CanAssertQueue(rc.queue, rc.queueOptions)
  /\ exchanges' = exchanges \cup {config.exchange, config.legacyExchange}
  /\ queues' = AssertedQueue(queues, rc.queue, rc.queueOptions)
  /\ bindings' = bindings \cup {Binding(rc.exchange, rc.queue, rc.routingKey)}
  /\ subs' = [subs EXCEPT ![s].consuming = TRUE]
  /\ UNCHANGED <<config, pubVars, dlv, nextId>>

\* ------------------------------------------------------------------------
\* Messages
\* ------------------------------------------------------------------------
NewMsg(id, rk, env) ==
  [id |-> id, rk |-> rk,
   headers |-> [actor |-> env.actor,
                xdeath |-> <<>>,
                firstDeathQueue |-> Undef,
                nonRetryable |-> Undef,
                originalError |-> Undef,
                latestTimestamp |-> Undef,
                trace_id |-> IF "trace_id" \in DOMAIN env THEN env.trace_id ELSE Undef],
   payload |-> [data |-> env.data, schema_ref |-> env.schema_ref],
   waits |-> <<>>]

\* A publisher (this library's or any other) publishes an envelope to an
\* exchange of the broker.
BrokerPublishUpTo(n, ex, rk, env) ==
  /\ nextId <= n
  /\ ex \in exchanges
  /\ queues' = Enqueued(queues, ex, NewMsg(nextId, rk, env))
  /\ nextId' = nextId + 1
  /\ UNCHANGED <<config, pubVars, exchanges, bindings, subs, dlv>>

BrokerPublish(ex, rk, env) == BrokerPublishUpTo(MaxMsgs, ex, rk, env)

\* The TTL of the message at the head of queue q expires: it is
\* dead-lettered with reason 'expired'.  The time it waited in the queue is
\* the queue's x-message-ttl (the consumer never sets a per-message
\* expiration); waits keeps the history of these times.
Expire(q) ==
  /\ q \in DOMAIN queues
  /\ queues[q].msgs # <<>>
  /\ IsNum(Arg(q, "x-message-ttl"))
  /\ queues' = AfterDeadLetter([queues EXCEPT ![q].msgs = Tail(@)],
                               [Head(queues[q].msgs) EXCEPT
                                  !.waits = Append(@, Arg(q, "x-message-ttl"))],
                               q, "expired")
  /\ UNCHANGED <<config, pubVars, exchanges, bindings, subs, dlv, nextId>>

RetryQueueExpire(s) ==
  /\ subs[s].status = "registered"
  /\ Expire(subs[s].queueConfig.retryQueueName)

ErrorQueueExpire(s) ==
  /\ subs[s].status = "registered"
  /\ Expire(subs[s].queueConfig.errorQueueName)

\* ------------------------------------------------------------------------
\* EventBusProcessingInterceptor
\* ------------------------------------------------------------------------
NoError == [name |-> "none"]
PlainError == [name |-> "Error", message |-> "handler failed"]
ChannelError == [name |-> "Error", message |-> "channel closed"]

NonRetryableError(message, originalError) ==
  [name |-> "NonRetryableError", shouldRetry |-> FALSE,
   message |-> message, originalError |-> originalError]

RetryError(message, originalError, attemptNumber) ==
  [name |-> "RetryError", shouldRetry |-> TRUE,
   message |-> message, originalError |-> originalError,
   attemptNumber |-> attemptNumber]

BusinessRuleError == NonRetryableError("business rule", Undef)

IsNonRetryable(e) == e.name = "NonRetryableError"
IsEventError(e) == e.name \in {"NonRetryableError", "RetryError"}

\* What the wrapped handler does with one delivery.
Outcomes == {"ok", "throw", "terminal"}

validateEvent_strictAll(eventType, msg) ==
  IF ~Truthy(msg.headers.actor) THEN "missing_actor"
  ELSE IF ~Truthy(msg.payload.data) \/ ~Truthy(msg.payload.schema_ref) THEN "invalid_payload"
  ELSE "none"

validateEvent_payloadFirst(eventType, msg) ==
  IF eventType = "legacy" THEN "none"
  ELSE IF ~Truthy(msg.payload.data) \/ ~Truthy(msg.payload.schema_ref) THEN "invalid_payload"
  ELSE IF ~Truthy(msg.headers.actor) THEN "missing_actor"
  ELSE "none"

\* validateEvent: the ValidationFailureType, or "none" for null.
validateEvent(eventType, msg) ==
  IF eventType = "legacy" THEN "none"
  ELSE IF ~Truthy(msg.headers.actor) THEN "missing_actor"
  ELSE IF ~Truthy(msg.payload.data) \/ ~Truthy(msg.payload.schema_ref) THEN "invalid_payload"
  ELSE "none"

getCurrentAttemptCount_first(headers) == 1

RECURSIVE SumCounts(_)
SumCounts(history) ==
  IF history = <<>> THEN 0 ELSE Head(history).count + SumCounts(Tail(history))

getCurrentAttemptCount_allHops(headers) == SumCounts(headers.xdeath) + 1

getCurrentAttemptCount_head(headers) ==
  IF Len(headers.xdeath) = 0 THEN 1 ELSE Head(headers.xdeath).count + 1

\* getCurrentAttemptCount
getCurrentAttemptCount(headers) ==
  LET deadLetterHistory == headers.xdeath
      originalSubscriberQueue == OrElse(headers.firstDeathQueue, Str(<<>>)).v
      idx == {i \in 1..Len(deadLetterHistory) :
                deadLetterHistory[i].queue = originalSubscriberQueue}
      originalQueueDeathCount ==
        IF idx = {} THEN 0
        ELSE deadLetterHistory[CHOOSE i \in idx : \A j \in idx : i <= j].count
  IN IF Len(deadLetterHistory) = 0 THEN 1 ELSE originalQueueDeathCount + 1

\* attemptNumber > maxRetries, where maxRetries may be undefined, null or NaN
GreaterThan(n, x) ==
  CASE IsNum(x) -> n > x.v
    [] x = Null -> n > 0
    [] OTHER -> FALSE

\* The max retries handleRetry reads: the subscription's retry.count, else
\* the ConfigService's eventBus.retry.defaultMaxRetries.
PipelineMaxRetries(options) == Coalesce(RetryCount(options), config.pipelineDefaultMaxRetries)

handleRetry_rethrow(options, msg, error) ==
  IF IsNonRetryable(error)
  THEN [status |-> "sent_to_error_exchange", error |-> error]
  ELSE LET attemptNumber == getCurrentAttemptCount(msg.headers)
           maxRetries == PipelineMaxRetries(options)
       IN IF GreaterThan(attemptNumber, maxRetries)
          THEN [status |-> "sent_to_error_exchange",
                error |-> NonRetryableError("retry exhausted", error)]
          ELSE [status |-> "retried", error |-> error]

handleRetry_atLeast(options, msg, error) ==
  IF IsNonRetryable(error)
  THEN [status |-> "sent_to_error_exchange", error |-> error]
  ELSE LET attemptNumber == getCurrentAttemptCount(msg.headers)
           maxRetries == PipelineMaxRetries(options)
       IN IF GreaterThan(attemptNumber + 1, maxRetries)
          THEN [status |-> "sent_to_error_exchange",
                error |-> NonRetryableError("retry exhausted", error)]
          ELSE [status |-> "retried",
                error |-> RetryError("retrying", error, attemptNumber)]

\* handleRetry: the status it records and the error it raises.
handleRetry(options, msg, error) ==
  IF IsNonRetryable(error)
  THEN [status |-> "sent_to_error_exchange", error |-> error]
  ELSE LET attemptNumber == getCurrentAttemptCount(msg.headers)
           maxRetries == PipelineMaxRetries(options)
       IN IF GreaterThan(attemptNumber, maxRetries)
          THEN [status |-> "sent_to_error_exchange",
                error |-> NonRetryableError("retry exhausted", error)]
          ELSE [status |-> "retried",
                error |-> RetryError("retrying", error, attemptNumber)]

processEvent_processedEarly(r, msg, outcome) ==
  LET validationFailure == validateEvent(r.eventType, msg) IN
  IF validationFailure # "none"
  THEN LET thrown == NonRetryableError(validationFailure, Undef)
           hr == handleRetry(r.options, msg, thrown)
       IN [statuses |-> <<"received", "failed", "failed", hr.status>>,
           validationFailure |-> validationFailure,
           invoked |-> FALSE, error |-> hr.error]
  ELSE IF outcome = "ok"
  THEN [statuses |-> <<"received", "processed">>,
        validationFailure |-> "none",
        invoked |-> TRUE, error |-> NoError]
  ELSE LET thrown == IF outcome = "terminal" THEN BusinessRuleError ELSE PlainError
           hr == handleRetry(r.options, msg, thrown)
       IN [statuses |-> <<"received", "processed", "failed", hr.status>>,
           validationFailure |-> "none",
           invoked |-> TRUE, error |-> hr.error]

\* processEvent for one delivery, given what the handler does if invoked:
\* the statuses recorded, the validation failure recorded, whether the
\* handler ran, and the error that leaves the pipeline (NoError on success).
processEvent(r, msg, outcome) ==
  LET validationFailure == validateEvent(r.eventType, msg) IN
  IF validationFailure # "none"
  THEN LET thrown == NonRetryableError(validationFailure, Undef)
           hr == handleRetry(r.options, msg, thrown)
       IN [statuses |-> <<"received", "failed", "failed", hr.status>>,
           validationFailure |-> validationFailure,
           invoked |-> FALSE, error |-> hr.error]
  ELSE IF outcome = "ok"
  THEN [statuses |-> <<"received", "processed">>,
        validationFailure |-> "none",
        invoked |-> TRUE, error |-> NoError]
  ELSE LET thrown == IF outcome = "terminal" THEN BusinessRuleError
                     ELSE IF outcome = "throwEmpty" THEN [name |-> "Error", message |-> ""]
                     ELSE PlainError
           hr == handleRetry(r.options, msg, thrown)
       IN [statuses |-> <<"received", "failed", hr.status>>,
           validationFailure |-> "none",
           invoked |-> TRUE, error |-> hr.error]

NoArgs == <<>>

\* Array.prototype.join('.')
RECURSIVE join(_)
join(parts) ==
  IF parts = <<>> THEN <<>>
  ELSE IF Len(parts) = 1 THEN parts[1]
  ELSE parts[1] \o Dot \o join(Tail(parts))

unknown == <<"u", "n", "k", "n", "o", "w", "n">>

parseRoutingKey_thirdOnly(routingKey) ==
  LET parts == split(routingKey) IN
  IF Len(parts) >= 3
  THEN [domain |-> Str(parts[1]), entity |-> Str(parts[2]), action |-> Str(parts[3])]
  ELSE Null

\* EventBusMetricsService.parseRoutingKey
parseRoutingKey(routingKey) ==
  LET parts == split(routingKey) IN
  IF Len(parts) >= 3
  THEN [domain |-> Str(parts[1]), entity |-> Str(parts[2]),
        action |-> Str(join(SubSeq(parts, 3, Len(parts))))]
  ELSE Null

\* EventBusMetricsService.getActualDomainEntityAction
getActualDomainEntityAction(metadata, routingKey) ==
  IF metadata.eventType = "standard"
  THEN LET parsed == parseRoutingKey(routingKey) IN
       IF parsed # Null THEN parsed
       ELSE [domain |-> Coalesce(metadata.options.domain, Str(unknown)),
             entity |-> Coalesce(metadata.options.entity, Str(unknown)),
             action |-> Coalesce(metadata.options.action, Str(unknown))]
  ELSE [domain |-> Str(unknown), entity |-> Str(unknown), action |-> Str(unknown)]

NoLabels == [domain |-> Undef, entity |-> Undef, action |-> Undef]

\* The arguments the decorator's wrapper passes to the original handler:
\* (payload, headers) for a legacy subscription, (auth built from
\* headers.actor, event, headers) for a standard one, with
\* headers = amqpMsg.properties.headers || {}.
HandlerArgs(eventType, msg) ==
  IF eventType = "legacy"
  THEN <<msg.payload, msg.headers>>
  ELSE <<[user |-> Null, actor |-> msg.headers.actor], msg.payload, msg.headers>>

NoMsg == [id |-> 0]

getLoggerContext_aliased(metadata, headers, context) ==
  LET tags == [context.named_tags EXCEPT
                 !.event_type = metadata.eventType,
                 !.trace_id = IF metadata.eventType = "standard" /\ Truthy(headers.trace_id)
                              THEN headers.trace_id ELSE @]
  IN [ctx |-> [named_tags |-> tags, own |-> FALSE],
      context |-> [context EXCEPT !.named_tags = tags]]

\* EventBusProcessingInterceptor.getLoggerContext: a new context object
\* with a new named_tags object (the spreads copy the ambient context and
\* its tags), the event type added, and the trace id of the headers for a
\* standard event that carries one.  own tells whether named_tags is an
\* object of its own or the ambient context's; context is the ambient
\* context after the call.
getLoggerContext(metadata, headers, context) ==
  LET baseContext == [named_tags |-> [context.named_tags EXCEPT
                                        !.event_type = metadata.eventType],
                      own |-> TRUE]
  IN [ctx |-> IF metadata.eventType = "standard" /\ Truthy(headers.trace_id)
              THEN [baseContext EXCEPT !.named_tags.trace_id = headers.trace_id]
              ELSE baseContext,
      context |-> context]

\* ContextStore.getContext() inside the callback of runWithCtx(fn, ctx):
\* the tags of the context object the callback was started with, read
\* through its named_tags reference.
getContext(context, ctx) ==
  IF ctx.own THEN ctx.named_tags ELSE context.named_tags

IdleDelivery ==
  [stage |-> "idle", msg |-> NoMsg, error |-> NoError, statuses |-> <<>>,
   validationFailure |-> "none", ops |-> <<>>, attempt |-> 0,
   deliveries |-> 0, invoked |-> 0, outcome |-> "none", seen |-> {},
   nacks |-> 0, errPublishes |-> 0, acks |-> 0, args |-> NoArgs,
   labels |-> NoLabels, published |-> <<>>,
   ctx |-> [named_tags |-> NoTags, own |-> TRUE], observed |-> NoTags]

Settled == {"idle", "acked", "nacked"}

\* Deliveries of one message are capped: a subscription whose max retries
\* is not a number retries without end.
MaxDeliveries == MaxRetries + 2

\* The broker delivers the message at the head of the subscription's queue
\* to its consumer; the message stays unacknowledged.
Deliver(s, m) ==
  LET q == subs[s].rabbitConfig.queue
      d == dlv[<<s, m>>]
      entered == getLoggerContext(subs[s], Head(queues[q].msgs).headers, subs[s].context)
  IN
  /\ subs[s].consuming
  /\ q \in DOMAIN queues
  /\ queues[q].msgs # <<>>
  /\ Head(queues[q].msgs).id = m
  /\ d.stage \in Settled
  /\ d.deliveries < MaxDeliveries
  /\ queues' = [queues EXCEPT ![q].msgs = Tail(@)]
  /\ dlv' = [dlv EXCEPT ![<<s, m>>] =
       [d EXCEPT !.stage = "delivered", !.msg = Head(queues[q].msgs),
                 !.error = NoError, !.statuses = <<>>, !.ops = <<>>,
                 !.validationFailure = "none", !.outcome = "none",
                 !.args = NoArgs, !.labels = NoLabels, !.published = <<>>,
                 !.attempt = getCurrentAttemptCount(Head(queues[q].msgs).headers),
                 !.ctx = entered.ctx, !.observed = NoTags,
                 !.deliveries = @ + 1]]
  /\ subs' = [subs EXCEPT ![s].context = entered.context]
  /\ UNCHANGED <<config, pubVars, exchanges, bindings, nextId>>

\* The interceptor processes the delivery.  When no error leaves the
\* pipeline the consumer library acknowledges the message.
ProcessEvent(s, m, outcome) ==
  LET d == dlv[<<s, m>>]
      res == processEvent(subs[s], d.msg, outcome)
  IN
  /\ d.stage = "delivered"
  /\ dlv' = [dlv EXCEPT ![<<s, m>>] =
       [d EXCEPT !.stage = IF res.error = NoError THEN "acked" ELSE "failed",
                 !.error = res.error,
                 !.statuses = res.statuses,
                 !.validationFailure = res.validationFailure,
                 !.invoked = IF res.invoked THEN @ + 1 ELSE @,
                 !.outcome = IF res.invoked THEN outcome ELSE "none",
                 !.args = IF res.invoked THEN HandlerArgs(subs[s].eventType, d.msg)
                          ELSE NoArgs,
                 !.labels = getActualDomainEntityAction(subs[s], d.msg.rk),
                 !.observed = getContext(subs[s].context, d.ctx),
                 !.seen = IF res.invoked THEN @ \cup {outcome} ELSE @,
                 !.ops = IF res.error = NoError THEN <<"ack">> ELSE <<>>,
                 !.acks = IF res.error = NoError THEN @ + 1 ELSE @]]
  /\ UNCHANGED <<config, pubVars, brokerVars, subs, nextId>>

\* ------------------------------------------------------------------------
\* createEventRetryHandler and publishToErrorExchange
\* ------------------------------------------------------------------------
\* The channel calls of the error handler that may throw.
ChannelOps == {"nack", "publish", "ack", "catch.publish", "catch.ack"}
NoFaults == {}

ErrorMessage_queueNameKey(queueConfig, originalMsg, error) ==
  [originalMsg EXCEPT
     !.rk = queueConfig.queueName,
     !.headers.nonRetryable = IF IsNonRetryable(error) THEN Obj ELSE @,
     !.headers.originalError =
        IF IsNonRetryable(error) /\ error.originalError # Undef
                                 /\ error.originalError.message # ""
        THEN Str(error.originalError.message)
        ELSE Str(error.message),
     !.headers.latestTimestamp = Obj]

ErrorMessage_alwaysTerminal(queueConfig, originalMsg, error) ==
  [originalMsg EXCEPT
     !.rk = queueConfig.routingKey,
     !.headers.nonRetryable = Obj,
     !.headers.originalError =
        IF IsNonRetryable(error) /\ error.originalError # Undef
                                 /\ error.originalError.message # ""
        THEN Str(error.originalError.message)
        ELSE Str(error.message),
     !.headers.latestTimestamp = Obj]

\* publishToErrorExchange: the message handed to channel.publish.  The
\* header is error.originalError?.message || error.message: an empty
\* message of the wrapped error is falsy.
ErrorMessage(queueConfig, originalMsg, error) ==
  [originalMsg EXCEPT
     !.rk = queueConfig.routingKey,
     !.headers.nonRetryable = IF IsNonRetryable(error) THEN Obj ELSE @,
     !.headers.originalError =
        IF IsNonRetryable(error) /\ error.originalError # Undef
                                 /\ error.originalError.message # ""
        THEN Str(error.originalError.message)
        ELSE Str(error.message),
     !.headers.latestTimestamp = Obj]

publishToErrorExchange(qs, queueConfig, originalMsg, error) ==
  Enqueued(qs, queueConfig.errorExchangeName, ErrorMessage(queueConfig, originalMsg, error))

\* The catch block of the error handler: publish the handler's own error to
\* the error exchange, then ack.  Neither call is guarded.
CatchBlock(qs, queueConfig, msg, ops, pubs, faults) ==
  IF "catch.publish" \in faults
  THEN [queues |-> qs, ops |-> ops, stage |-> "unsettled", pubs |-> pubs,
        published |-> <<>>]
  ELSE LET qs2 == publishToErrorExchange(qs, queueConfig, msg, ChannelError) IN
       IF "catch.ack" \in faults
       THEN [queues |-> qs2, ops |-> Append(ops, "publish"),
             stage |-> "unsettled", pubs |-> pubs + 1, published |-> <<ChannelError>>]
       ELSE [queues |-> qs2, ops |-> ops \o <<"publish", "ack">>,
             stage |-> "acked", pubs |-> pubs + 1, published |-> <<ChannelError>>]

errorHandler_alwaysNack(queueConfig, q, msg, error, faults) ==
  [queues |-> AfterDeadLetter(queues, msg, q, "rejected"),
   ops |-> <<"nack">>, stage |-> "nacked", pubs |-> 0, published |-> <<>>]

\* The function returned by createEventRetryHandler, for a message consumed
\* from queue q: the queues afterwards, the channel calls that completed,
\* how the message was settled, the number of error-exchange publishes and
\* the error handed to the last of them.
errorHandler(queueConfig, q, msg, error, faults) ==
  IF IsEventError(error) /\ error.shouldRetry
  THEN IF "nack" \in faults
       THEN CatchBlock(queues, queueConfig, msg, <<>>, 0, faults)
       ELSE [queues |-> AfterDeadLetter(queues, msg, q, "rejected"),
             ops |-> <<"nack">>, stage |-> "nacked", pubs |-> 0, published |-> <<>>]
  ELSE IF "publish" \in faults
       THEN CatchBlock(queues, queueConfig, msg, <<>>, 0, faults)
       ELSE LET qs1 == publishToErrorExchange(queues, queueConfig, msg, error) IN
            IF "ack" \in faults
            THEN CatchBlock(qs1, queueConfig, msg, <<"publish">>, 1, faults)
            ELSE [queues |-> qs1, ops |-> <<"publish", "ack">>,
                  stage |-> "acked", pubs |-> 1, published |-> <<error>>]

\* The consumer library hands the error that left the pipeline to the
\* subscription's error handler.
ErrorHandler(s, m, faults) ==
  LET d == dlv[<<s, m>>]
      res == errorHandler(subs[s].queueConfig, subs[s].rabbitConfig.queue,
                          d.msg, d.error, faults)
  IN
  /\ d.stage = "failed"
  /\ queues' = res.queues
  /\ dlv' = [dlv EXCEPT ![<<s, m>>] =
       [d EXCEPT !.stage = res.stage,
                 !.ops = res.ops,
                 !.published = res.published,
                 !.nacks = IF res.stage = "nacked" THEN @ + 1 ELSE @,
                 !.acks = IF res.stage = "acked" THEN @ + 1 ELSE @,
                 !.errPublishes = @ + res.pubs]]
  /\ UNCHANGED <<config, pubVars, exchanges, bindings, subs, nextId>>

\* ------------------------------------------------------------------------
\* EventBusPublisher.publish
\* ------------------------------------------------------------------------
NoCall == [options |-> Undef, result |-> "none"]

\* publish(options): validation, event and routing key construction, one
\* channelWrapper.publish; any error is logged and rethrown.
publish(o) ==
  LET v == validatePublishOptions(o)
      domain == OrElse(o.domain, config.defaultDomain)
      event == buildEvent(o, config.appName, Obj)
  IN
  /\ pubCall.result = "none"
  /\ IF v # Ok
     THEN /\ pubCall' = [options |-> o, result |-> v]
          /\ pubLog' = <<>>
     ELSE IF ~IsStr(domain)
     THEN /\ pubCall' = [options |-> o, result |-> ErrTypeError]
          /\ pubLog' = <<>>
     ELSE /\ pubCall' = [options |-> o, result |-> "resolved"]
          /\ pubLog' = <<[exchange |-> config.exchange,
                          routingKey |-> buildRoutingKey(domain.v, o.entityType.v, o.eventType.v),
                          content |-> event.payload,
                          options |-> [headers |-> event.headers, persistent |-> TRUE]]>>
  /\ UNCHANGED <<config, brokerVars, subs, dlv, nextId>>

\* The caller has observed the settled promise; the publisher keeps no
\* state between calls.
publishReturned ==
  /\ pubCall.result # "none"
  /\ pubCall' = NoCall
  /\ pubLog' = <<>>
  /\ UNCHANGED <<config, brokerVars, subs, dlv, nextId>>

\* ------------------------------------------------------------------------
\* Inputs
\* ------------------------------------------------------------------------
Star == <<"*">>
Created_ == <<"C", "r", "e", "a", "t", "e", "d">>
PayHash == <<"p", "a", "y", ".", "#">>
CustomQueue == <<"q">>
KeyUser == <<"p", "a", "y", ".", "u", "s", "e", "r", ".", "c", "r", "e", "a", "t", "e", "d">>
KeyCard == <<"p", "a", "y", ".", "c", "a", "r", "d", ".", "c", "r", "e", "a", "t", "e", "d">>
KeyOther == <<"a", "d", ".", "u", "s", "e", "r">>
SchemaRef == <<"u", "s", "e", "r", "@", "v", "1">>
DefaultRetryDelayMs == 10000
DefaultMaxRetries == 1

JsNullable == {Undef, Null, Obj}

PublishOptions ==
  [entityType : {Undef, Str(<<>>), Str(<<" ">>), Str(User)},
   eventType : {Undef, Str(<<>>), Str(Created_), Str(created), Str(read),
                Str(updated), Str(deleted)},
   data : JsNullable, prevData : JsNullable, actor : JsNullable,
   domain : {Undef, Str(<<>>), Str(Pay)},
   version : {Undef, Str(<<"v", "2">>)}]

RetryOptions ==
  {Undef} \cup {[t |-> "object", count |-> Num(n), delayMs |-> Num(1000)] : n \in 0..MaxRetries}

StandardOptions(domain, entity, action, retry) ==
  [domain |-> domain, entity |-> entity, action |-> action,
   queue |-> Undef, retry |-> retry,
   queueOptions |-> Undef, errorQueueOptions |-> Undef]

\* Every shape of domain/entity/action with the default retry policy, and
\* every retry policy for one literal subscription.
StandardDescriptors ==
  {StandardOptions(d, e, a, Undef) :
     d \in {Undef, Str(<<>>), Str(Pay)},
     e \in {Str(<<>>), Str(User), Str(Star)},
     a \in {Undef, Str(created)}}
  \cup {StandardOptions(Str(Pay), Str(User), Str(created), r) : r \in RetryOptions}

LegacyDescriptors ==
  [routingKey : {Undef, Str(<<>>), Str(PayHash)},
   queue : {Undef, Str(CustomQueue)},
   retry : {[t |-> "object", count |-> Num(1), delayMs |-> Undef]},
   queueOptions : {Undef}, errorQueueOptions : {Undef}]

Envelopes ==
  {[actor |-> Obj, data |-> Obj, schema_ref |-> Str(SchemaRef)],
   [actor |-> Undef, data |-> Obj, schema_ref |-> Str(SchemaRef)],
   [actor |-> Undef, data |-> Undef, schema_ref |-> Str(SchemaRef)],
   [actor |-> Obj, data |-> Undef, schema_ref |-> Str(SchemaRef)],
   [actor |-> Obj, data |-> Obj, schema_ref |-> Undef],
   [actor |-> Undef, data |-> Undef, schema_ref |-> Undef]}

RoutingKeys == {KeyUser, KeyCard, KeyOther}

BaseConfig ==
  [appName |-> AppName, exchange |-> MainExchange, legacyExchange |-> LegacyExchange,
   defaultDomain |-> Str(DefaultDomain),
   defaultMaxRetries |-> Num(DefaultMaxRetries),
   defaultRetryDelayMs |-> Num(DefaultRetryDelayMs),
   pipelineDefaultMaxRetries |-> Num(DefaultMaxRetries),
   disabled |-> FALSE]

\* ------------------------------------------------------------------------
\* Specifications
\* ------------------------------------------------------------------------
InitRest ==
  /\ pubCall = NoCall
  /\ pubLog = <<>>
  /\ exchanges = {}
  /\ queues = <<>>
  /\ bindings = {}
  /\ subs = [s \in SubIds |-> Unregistered]
  /\ dlv = [k \in SubIds \X MsgIds |-> IdleDelivery]
  /\ nextId = 1

\* Subscriber side: the state after module load, before any decorator ran.
Init ==
  /\ config \in {[BaseConfig EXCEPT !.disabled = d, !.pipelineDefaultMaxRetries = p] :
                   d \in BOOLEAN, p \in {Undef, Num(DefaultMaxRetries)}}
  /\ InitRest

Register ==
  \/ \E s \in SubIds, o \in StandardDescriptors : SubscribeTo(s, o)
  \/ \E s \in SubIds, o \in LegacyDescriptors : LegacySubscribeTo(s, o)

Infrastructure ==
  \/ \E s \in SubIds : InfraSetup(s)
  \/ \E s \in SubIds : InfraClose(s)
  \/ \E s \in SubIds : ConsumerStart(s)

Broker ==
  \/ \E ex \in {MainExchange, LegacyExchange}, rk \in RoutingKeys, env \in Envelopes :
       BrokerPublish(ex, rk, env)
  \/ \E s \in SubIds : RetryQueueExpire(s)
  \/ \E s \in SubIds : ErrorQueueExpire(s)

Consume ==
  \/ \E s \in SubIds, m \in MsgIds : Deliver(s, m)
  \/ \E s \in SubIds, m \in MsgIds, outcome \in Outcomes : ProcessEvent(s, m, outcome)
  \/ \E s \in SubIds, m \in MsgIds : ErrorHandler(s, m, NoFaults)

Next == Register \/ Infrastructure \/ Broker \/ Consume

Spec == Init /\ [][Next]_vars

\* The broker and the consumer library make progress: queued messages are
\* delivered, handlers settle, errors reach the error handler, TTLs expire.
Fairness ==
  /\ \A s \in SubIds, m \in MsgIds : WF_vars(Deliver(s, m))
  /\ \A s \in SubIds, m \in MsgIds :
       WF_vars(\E outcome \in Outcomes : ProcessEvent(s, m, outcome))
  /\ \A s \in SubIds, m \in MsgIds : WF_vars(ErrorHandler(s, m, NoFaults))
  /\ \A s \in SubIds : WF_vars(RetryQueueExpire(s))

FairSpec == Init /\ [][Next]_vars /\ Fairness

\* The channel calls of the error handler may throw.
Faulty ==
  \E s \in SubIds, m \in MsgIds, faults \in (SUBSET ChannelOps) \ {NoFaults} :
    ErrorHandler(s, m, faults)

FaultNext == Next \/ Faulty

FaultSpec == Init /\ [][FaultNext]_vars

\* Registration and bootstrap against a broker whose calls may fail.
InfraFaulty ==
  \/ \E s \in SubIds : InfraFail(s)
  \/ \E s \in SubIds : InfraAbandon(s)

InfraFaultNext == Register \/ Infrastructure \/ InfraFaulty

InfraFaultSpec == Init /\ [][InfraFaultNext]_vars

\* Caller-supplied queue arguments (queueOptions of a subscription).
OtherExchange == <<"o", "t", "h", "e", "r">>
QueueOverrides ==
  {Undef,
   [a \in {"x-max-length"} |-> Num(5)],
   [a \in {"x-dead-letter-exchange"} |-> Str(OtherExchange)],
   [a \in {"x-max-length", "x-dead-letter-exchange"} |->
      IF a = "x-max-length" THEN Num(5) ELSE Str(OtherExchange)]}

\* Descriptors for the topology planning: literal and wildcard entities,
\* default and custom queue names, with and without queue overrides.
PlanStandardDescriptors ==
  {[domain |-> Str(Pay), entity |-> e, action |-> Str(created),
    queue |-> q, retry |-> Undef, queueOptions |-> qo, errorQueueOptions |-> Undef] :
     e \in {Str(User), Str(Star)}, q \in {Undef, Str(<<>>), Str(CustomQueue)},
     qo \in QueueOverrides}

PlanLegacyDescriptors ==
  {[routingKey |-> Str(PayHash), queue |-> q, retry |-> Undef,
    queueOptions |-> qo, errorQueueOptions |-> Undef] :
     q \in {Undef, Str(CustomQueue)}, qo \in QueueOverrides}

PlanRegister ==
  \/ \E s \in SubIds, o \in PlanStandardDescriptors : SubscribeTo(s, o)
  \/ \E s \in SubIds, o \in PlanLegacyDescriptors : LegacySubscribeTo(s, o)

PlanNext == PlanRegister \/ Infrastructure

\* Registration, infrastructure assertion and bootstrap over the planning
\* descriptors.
PlanSpec == Init /\ [][PlanNext]_vars

\* Retry policies: none, count only, delay only, both; with explicit zeros.
PolicyRetryOptions ==
  {Undef,
   [t |-> "object", count |-> Num(0), delayMs |-> Undef],
   [t |-> "object", count |-> Undef, delayMs |-> Num(0)],
   [t |-> "object", count |-> Num(1), delayMs |-> Num(1000)]}

PolicyStandardDescriptors ==
  {StandardOptions(Str(Pay), Str(User), Str(created), r) : r \in PolicyRetryOptions}

PolicyLegacyDescriptors ==
  {[routingKey |-> Str(PayHash), queue |-> Undef, retry |-> r,
    queueOptions |-> Undef, errorQueueOptions |-> Undef] :
     r \in {[t |-> "object", count |-> Undef, delayMs |-> Num(0)]}}

\* The environment leaves both default max retries at 1, or sets
\* EVENT_BUS_DEFAULT_MAX_RETRIES to 0 with DEFAULT_MAX_RETRIES 0 or unset.
PolicyInit ==
  /\ config \in {[BaseConfig EXCEPT !.defaultMaxRetries = Num(dp[1]),
                                   !.pipelineDefaultMaxRetries = dp[2]] :
                   dp \in {<<DefaultMaxRetries, Num(DefaultMaxRetries)>>,
                           <<0, Num(0)>>, <<0, Undef>>}}
  /\ InitRest

PolicyRegister ==
  \/ \E s \in SubIds, o \in PolicyStandardDescriptors : SubscribeTo(s, o)
  \/ \E s \in SubIds, o \in PolicyLegacyDescriptors : LegacySubscribeTo(s, o)

PolicyNext == PolicyRegister \/ Infrastructure \/ Broker \/ Consume

\* The subscriber side over the retry policies and the default max retries.
PolicySpec == PolicyInit /\ [][PolicyNext]_vars

\* Domain, entity and action literals in several letter cases.
PAY == <<"P", "A", "Y">>
USER == <<"U", "S", "E", "R">>
RouteDomains == {Pay, PAY, toLowerCase(Pay)}
RouteEntities == {User, USER}
RouteActions == {created, Created_}

RouteStandardDescriptors ==
  {StandardOptions(Str(d), Str(e), Str(a), Undef) :
     d \in RouteDomains, e \in RouteEntities, a \in RouteActions}

RoutePublishOptions ==
  [entityType : {Str(e) : e \in RouteEntities \cup {toLowerCase(User)}},
   eventType : {Str(a) : a \in RouteActions},
   data : {Obj}, prevData : {Undef}, actor : {Obj},
   domain : {Undef, Str(Pay), Str(PAY)},
   version : {Undef}]

RouteInit == config = BaseConfig /\ InitRest

RouteNext ==
  \/ \E s \in SubIds, o \in RouteStandardDescriptors : SubscribeTo(s, o)
  \/ Infrastructure
  \/ \E o \in RoutePublishOptions : publish(o)
  \/ publishReturned

\* A publisher and a standard subscriber of the same application.
RouteSpec == RouteInit /\ [][RouteNext]_vars

\* Subscriptions with wildcards, routing keys of two, three and four words,
\* handlers that throw an Error without a message, and a channel whose nack
\* may throw.
EdgeRegister ==
  \/ \E s \in SubIds, e \in {Hash, Star} :
       SubscribeTo(s, StandardOptions(Str(Pay), Str(e), Str(created), Undef))
  \/ \E s \in SubIds :
       LegacySubscribeTo(s, [routingKey |-> Str(PayHash), queue |-> Undef,
                             retry |-> Undef, queueOptions |-> Undef,
                             errorQueueOptions |-> Undef])

EdgeBroker ==
  \/ \E ex \in {MainExchange, LegacyExchange},
         rk \in {toLowerCase(Pay) \o Dot \o created,
                 KeyUser,
                 toLowerCase(Pay) \o Dot \o toLowerCase(User) \o Dot \o V1
                   \o Dot \o created},
         env \in {[actor |-> a, data |-> Obj, schema_ref |-> Str(SchemaRef)] :
                    a \in {Obj, Undef}} :
       BrokerPublish(ex, rk, env)
  \/ \E s \in SubIds : RetryQueueExpire(s)
  \/ \E s \in SubIds : ErrorQueueExpire(s)

EdgeConsume ==
  \/ \E s \in SubIds, m \in MsgIds : Deliver(s, m)
  \/ \E s \in SubIds, m \in MsgIds, outcome \in Outcomes \cup {"throwEmpty"} :
       ProcessEvent(s, m, outcome)
  \/ \E s \in SubIds, m \in MsgIds, faults \in {NoFaults, {"nack"}} :
       ErrorHandler(s, m, faults)

EdgeNext == EdgeRegister \/ Infrastructure \/ EdgeBroker \/ EdgeConsume

\* The subscriber side over these inputs.
EdgeSpec == RouteInit /\ [][EdgeNext]_vars

\* A publisher republishes a message that other queues dead-lettered
\* before: it arrives with an x-death history and possibly an
\* x-first-death-queue header.
BrokerPublishDead(ex, rk, env, history, first) ==
  /\ nextId <= MaxMsgs
  /\ ex \in exchanges
  /\ queues' = Enqueued(queues, ex,
                  [NewMsg(nextId, rk, env) EXCEPT !.headers.xdeath = history,
                                                   !.headers.firstDeathQueue = first])
  /\ nextId' = nextId + 1
  /\ UNCHANGED <<config, pubVars, exchanges, bindings, subs, dlv>>

HistoryNext ==
  \/ EdgeRegister
  \/ Infrastructure
  \/ \E ex \in {MainExchange, LegacyExchange},
         history \in {<<>>,
                      <<[queue |-> <<"q", "2">>, reason |-> "rejected", count |-> 5]>>,
                      <<[queue |-> <<"q", "1">>, reason |-> "rejected", count |-> 2],
                        [queue |-> <<"q", "2">>, reason |-> "rejected", count |-> 5]>>,
                      <<[queue |-> <<"q", "1">>, reason |-> "rejected", count |-> 2],
                        [queue |-> <<"q", "1">>, reason |-> "expired", count |-> 1]>>},
         first \in {Undef, Str(<<"q", "1">>), Str(<<"q", "2">>)} :
       BrokerPublishDead(ex, KeyUser,
                         [actor |-> Obj, data |-> Obj, schema_ref |-> Str(SchemaRef)],
                         history, first)
  \/ \E s \in SubIds : RetryQueueExpire(s)
  \/ \E s \in SubIds : ErrorQueueExpire(s)
  \/ Consume

\* The subscriber side over messages that arrive with a dead-letter history.
HistorySpec == RouteInit /\ [][HistoryNext]_vars

\* Several instances of the service start at once.  Each runs the same
\* decorators; each has its own infrastructure connection and consumer.
Instances == {1, 2}

TwoInit ==
  /\ config = BaseConfig
  /\ pubCall = NoCall
  /\ pubLog = <<>>
  /\ exchanges = {}
  /\ queues = <<>>
  /\ bindings = {}
  /\ subs = [s \in Instances |-> Unregistered]
  /\ dlv = [k \in Instances \X MsgIds |-> IdleDelivery]
  /\ nextId = 1

\* All instances register the same subscription; the broker calls of their
\* infrastructure assertions and of their consumers interleave freely.
RaceNext ==
  \/ \E s \in Instances, e \in {User, Star} :
       /\ \A i \in Instances :
            subs[i].status = "registered" => subs[i].options.entity = Str(e)
       /\ SubscribeTo(s, StandardOptions(Str(Pay), Str(e), Str(created), Undef))
  \/ \E s \in Instances : InfraSetup(s)
  \/ \E s \in Instances : InfraClose(s)
  \/ \E s \in Instances : StartConsuming(s)

RaceSpec == TwoInit /\ [][RaceNext]_vars

\* One subscription whose consumer may start at any time after the
\* decorator ran, also before its infrastructure assertion has finished or
\* after that assertion failed.  Error queue messages do not expire here
\* (their TTL is counted in days).
EarlyNext ==
  \/ \E s \in SubIds, e \in {User, Star} :
       SubscribeTo(s, StandardOptions(Str(Pay), Str(e), Str(created), Undef))
  \/ \E s \in SubIds : InfraSetup(s)
  \/ \E s \in SubIds : InfraClose(s)
  \/ \E s \in SubIds : InfraFail(s)
  \/ \E s \in SubIds : InfraAbandon(s)
  \/ \E s \in SubIds : StartConsuming(s)
  \/ BrokerPublish(MainExchange, KeyUser,
                   [actor |-> Obj, data |-> Obj, schema_ref |-> Str(SchemaRef)])
  \/ \E s \in SubIds : RetryQueueExpire(s)
  \/ Consume

EarlySpec == RouteInit /\ [][EarlyNext]_vars

\* Two subscriptions of one application with different queue names whose
\* routing keys both match pay.user.created; the event is published once
\* both consume.
TwoNext ==
  \/ SubscribeTo(1, StandardOptions(Str(Pay), Str(User), Str(created), Undef))
  \/ SubscribeTo(2, StandardOptions(Str(Pay), Str(Star), Str(created), Undef))
  \/ \E s \in Instances : InfraSetup(s)
  \/ \E s \in Instances : InfraClose(s)
  \/ \E s \in Instances : ConsumerStart(s)
  \/ /\ \A s \in Instances : subs[s].consuming
     /\ BrokerPublish(MainExchange, KeyUser,
                      [actor |-> Obj, data |-> Obj, schema_ref |-> Str(SchemaRef)])
  \/ \E s \in Instances : RetryQueueExpire(s)
  \/ \E s \in Instances, m \in MsgIds : Deliver(s, m)
  \/ \E s \in Instances, m \in MsgIds, outcome \in {"ok", "throw"} :
       ProcessEvent(s, m, outcome)
  \/ \E s \in Instances, m \in MsgIds : ErrorHandler(s, m, NoFaults)

TwoSpec == TwoInit /\ [][TwoNext]_vars

\* Two messages in flight to one subscription, standard or legacy.  Each
\* message carries a trace id of its own, an empty one, or none.
CtxMsgs == {1, 2}

CtxInit ==
  /\ config = BaseConfig
  /\ pubCall = NoCall
  /\ pubLog = <<>>
  /\ exchanges = {}
  /\ queues = <<>>
  /\ bindings = {}
  /\ subs = [s \in SubIds |-> Unregistered]
  /\ dlv = [k \in SubIds \X CtxMsgs |-> IdleDelivery]
  /\ nextId = 1

CtxNext ==
  \/ \E s \in SubIds :
       SubscribeTo(s, StandardOptions(Str(Pay), Str(User), Str(created), Undef))
  \/ \E s \in SubIds :
       LegacySubscribeTo(s, [routingKey |-> Str(KeyUser), queue |-> Undef,
                             retry |-> Undef, queueOptions |-> Undef,
                             errorQueueOptions |-> Undef])
  \/ Infrastructure
  \/ \E ex \in {MainExchange, LegacyExchange},
         trace \in {Undef, Str(<<>>), Str(<<"t", "1">>), Str(<<"t", "2">>)} :
       /\ nextId \in CtxMsgs
       /\ IsStr(trace) /\ Len(trace.v) > 0 =>
            trace = <<Str(<<"t", "1">>), Str(<<"t", "2">>)>>[nextId]
       /\ BrokerPublishUpTo(Cardinality(CtxMsgs), ex, KeyUser,
                            [actor |-> Obj, data |-> Obj, schema_ref |-> Str(SchemaRef),
                             trace_id |-> trace])
  \/ \E s \in SubIds : RetryQueueExpire(s)
  \/ \E s \in SubIds, m \in CtxMsgs : Deliver(s, m)
  \/ \E s \in SubIds, m \in CtxMsgs, outcome \in {"ok", "throw"} :
       ProcessEvent(s, m, outcome)
  \/ \E s \in SubIds, m \in CtxMsgs : ErrorHandler(s, m, NoFaults)

CtxSpec == CtxInit /\ [][CtxNext]_vars

\* The infrastructure assertion alone: any step of the setup may fail and
\* either close call of the finally block may throw.
CloseNext ==
  \/ \E s \in SubIds, e \in {User, Star, Hash} :
       SubscribeTo(s, StandardOptions(Str(Pay), Str(e), Str(created), Undef))
  \/ \E s \in SubIds :
       LegacySubscribeTo(s, [routingKey |-> Str(PayHash), queue |-> Undef,
                             retry |-> Undef, queueOptions |-> Undef,
                             errorQueueOptions |-> Undef])
  \/ \E s \in SubIds : InfraSetup(s)
  \/ \E s \in SubIds : InfraFail(s)
  \/ \E s \in SubIds, channelThrows \in BOOLEAN, connectionThrows \in BOOLEAN :
       InfraFinally(s, channelThrows, connectionThrows)

CloseSpec == RouteInit /\ [][CloseNext]_vars

\* Publisher side
PubInit ==
  /\ config \in {[BaseConfig EXCEPT !.defaultDomain = d] : d \in {Undef, Str(DefaultDomain)}}
  /\ InitRest

PubNext ==
  \/ \E o \in PublishOptions : publish(o)
  \/ publishReturned

PubSpec == PubInit /\ [][PubNext]_vars

\* ------------------------------------------------------------------------
\* Publisher claims (PubSpec)
\* ------------------------------------------------------------------------
UpperCase == {"A", "B", "C", "D", "E", "P", "R", "S", "U", "Y"}

Given(x) == ~IsNullish(x)
NonBlank(x) == IsStr(x) /\ \E i \in 1..Len(x.v) : x.v[i] # " "

\* The publish options satisfy every documented requirement.
PassesValidation(o) ==
  /\ NonBlank(o.entityType)
  /\ IsStr(o.eventType) /\ o.eventType.v \in {created, read, updated, deleted}
  /\ Given(o.data)
  /\ Given(o.actor)
  /\ (o.eventType.v = updated => Given(o.prevData))

\* The domain a publish call routes under, when there is one.
HasDomain(o) == Truthy(o.domain) \/ IsStr(config.defaultDomain)
DomainOf(o) == IF Truthy(o.domain) THEN o.domain.v ELSE config.defaultDomain.v

ValidationRules(o) ==
  <<[violated |-> ~NonBlank(o.entityType), message |-> ErrEntityType],
    [violated |-> ~NonBlank(o.eventType), message |-> ErrEventType],
    [violated |-> IsStr(o.eventType) /\ o.eventType.v \notin {created, read, updated, deleted},
     message |-> ErrEventTypeInvalid],
    [violated |-> ~Given(o.data), message |-> ErrData],
    [violated |-> ~Given(o.actor), message |-> ErrActor],
    [violated |-> o.eventType = Str(updated) /\ ~Given(o.prevData),
     message |-> ErrPrevData]>>

ViolatedRules(o) == {i \in 1..Len(ValidationRules(o)) : ValidationRules(o)[i].violated}

\* C8: publish validation rejects with the message of the first violated
\* condition in the order entityType empty, eventType empty, eventType not
\* allowed, data missing, actor missing, 'updated' without prevData.
C8_ValidationOrder ==
  pubCall.result # "none" =>
    LET o == pubCall.options
        bad == ViolatedRules(o)
    IN bad # {} =>
         pubCall.result = ValidationRules(o)[CHOOSE i \in bad : \A j \in bad : i <= j].message

C8_Witness ==
  /\ pubCall.result = ErrEventTypeInvalid
  /\ Cardinality(ViolatedRules(pubCall.options)) >= 3
  /\ pubCall.options.data = Null
  /\ pubCall.options.actor = Undef

\* C9: publishing a 'deleted' event without prevData rejects with 'prevData
\* is required' and performs no broker publish.
C9_DeletedRequiresPrevData ==
  LET o == pubCall.options IN
  (/\ pubCall.result # "none"
   /\ NonBlank(o.entityType) /\ Given(o.data) /\ Given(o.actor)
   /\ o.eventType = Str(deleted) /\ ~Given(o.prevData))
    => (pubCall.result = ErrPrevData /\ pubLog = <<>>)

\* ------------------------------------------------------------------------
\* Subscriber claims (Spec, FairSpec, FaultSpec)
\* ------------------------------------------------------------------------
Keys == SubIds \X MsgIds

\* Message m has a copy in queue q.
InQueue(q, m) ==
  q \in DOMAIN queues /\ \E i \in 1..Len(queues[q].msgs) : queues[q].msgs[i].id = m

CopyIn(q, m) == queues[q].msgs[CHOOSE i \in 1..Len(queues[q].msgs) : queues[q].msgs[i].id = m]

MainQueue(s) == subs[s].queueConfig.queueName
RetryQueue(s) == subs[s].queueConfig.retryQueueName
ErrorQueue(s) == subs[s].queueConfig.errorQueueName

IsRegistered(s) == subs[s].status = "registered"

C2_TerminalToErrorExchange ==
  \A k \in Keys :
    LET s == k[1]
        d == dlv[k]
    IN d.outcome = "terminal" =>
         /\ d.error = BusinessRuleError
         /\ d.stage \in {"failed", "acked"}
         /\ d.stage = "acked" =>
              /\ d.ops = <<"publish", "ack">>
              /\ d.nacks = d.deliveries - 1
              /\ ~InQueue(MainQueue(s), k[2])
              /\ ~InQueue(RetryQueue(s), k[2])

C2_Witness ==
  \E k \in Keys :
    /\ dlv[k].outcome = "terminal"
    /\ dlv[k].stage = "acked"
    /\ dlv[k].attempt = 2
    /\ PipelineMaxRetries(subs[k[1]].options) = Num(2)
    /\ InQueue(ErrorQueue(k[1]), k[2])
    /\ CopyIn(ErrorQueue(k[1]), k[2]).headers.nonRetryable = Obj

\* The delivery of m to s has reached a final state: the handler completed,
\* or the message is in the subscription's error queue.
Final(k) ==
  \/ (dlv[k].stage = "acked" /\ dlv[k].error = NoError)
  \/ (IsRegistered(k[1]) /\ InQueue(ErrorQueue(k[1]), k[2]))

C4_ValidationFailures ==
  \A k \in Keys :
    LET s == k[1]
        d == dlv[k]
        noActor == ~Truthy(d.msg.headers.actor)
        badPayload == ~Truthy(d.msg.payload.data) \/ ~Truthy(d.msg.payload.schema_ref)
    IN (subs[s].eventType = "standard" /\ d.stage \notin {"idle", "delivered"}
          /\ (noActor \/ badPayload)) =>
         /\ d.validationFailure = IF noActor THEN "missing_actor" ELSE "invalid_payload"
         /\ d.invoked = 0
         /\ d.nacks = 0
         /\ IsNonRetryable(d.error)
         /\ d.stage \in {"failed", "acked"}
         /\ d.stage = "acked" => (d.ops = <<"publish", "ack">> /\ d.errPublishes = 1)

C4_Witness ==
  \E k \in Keys :
    /\ dlv[k].stage = "acked"
    /\ subs[k[1]].eventType = "standard"
    /\ ~Truthy(dlv[k].msg.headers.actor)
    /\ ~Truthy(dlv[k].msg.payload.data)
    /\ dlv[k].validationFailure = "missing_actor"
    /\ InQueue(ErrorQueue(k[1]), k[2])

\* C5: even when the error handler's own channel calls throw, no execution
\* of it ends with the message neither acked nor nacked.
C5_AlwaysSettled == \A k \in Keys : dlv[k].stage # "unsettled"

\* The nack of delivery k is taken in this step.
NackStep(k) == dlv[k].stage = "failed" /\ dlv'[k].stage = "nacked"

EmptyOrMissing(v) == v \in {Undef, Null, Str(<<>>)}

\* The options a registration was called with lack a required field.
InvalidOptions(o) ==
  IF "routingKey" \in DOMAIN o
  THEN EmptyOrMissing(o.routingKey)
  ELSE EmptyOrMissing(o.domain) \/ EmptyOrMissing(o.entity) \/ EmptyOrMissing(o.action)

\* The registration threw before planning a topology or touching the broker.
ThrewBeforePlanning(s) ==
  /\ subs[s].status = "threw"
  /\ subs[s].queueConfig = Undef
  /\ subs[s].queueOptions = Undef
  /\ subs[s].rabbitConfig = Undef
  /\ subs[s].connects = 0
  /\ subs[s].infra = "idle"
  /\ subs[s].infraPc = 0
  /\ ~subs[s].consuming

\* C10 as stated: every registration with an empty or missing required field
\* throws before any topology is planned or asserted.
C10_InvalidAlwaysThrows ==
  \A s \in SubIds :
    (subs[s].status # "unregistered" /\ InvalidOptions(subs[s].options))
      => ThrewBeforePlanning(s)

\* C10: unless the disable flag is set, a registration with an empty or
\* missing domain, entity or action (standard) or routingKey (legacy) throws
\* before any topology is planned and before any broker entity is asserted;
\* with the flag set the registration is a no-op and nothing is validated.
C10_InvalidThrowsUnlessDisabled ==
  \A s \in SubIds :
    (subs[s].status # "unregistered" /\ InvalidOptions(subs[s].options)) =>
      IF config.disabled
      THEN subs[s].status = "disabled" /\ subs[s].connects = 0 /\ subs[s].queueConfig = Undef
      ELSE ThrewBeforePlanning(s) /\ exchanges = {} /\ DOMAIN queues = {}

C10_Witness ==
  \E s \in SubIds :
    /\ ~config.disabled
    /\ "entity" \in DOMAIN subs[s].options
    /\ subs[s].options.entity = Str(<<>>)
    /\ Truthy(subs[s].options.domain)
    /\ Truthy(subs[s].options.action)
    /\ ThrewBeforePlanning(s)

\* Nothing was derived, connected, asserted or registered for subscription s.
NothingRegistered(s) ==
  /\ subs[s].eventType = "none"
  /\ subs[s].queueConfig = Undef
  /\ subs[s].queueOptions = Undef
  /\ subs[s].rabbitConfig = Undef
  /\ subs[s].connects = 0
  /\ subs[s].infra = "idle"
  /\ subs[s].infraPc = 0
  /\ ~subs[s].consuming

\* C11: with the disable flag set, registering a standard or legacy
\* subscription is a no-op: no name is derived, no connection is opened, no
\* exchange, queue or binding is asserted, no consumer is registered and
\* nothing is ever delivered.
C11_DisabledIsNoOp ==
  config.disabled =>
    /\ \A s \in SubIds :
         /\ subs[s].status \in {"unregistered", "disabled"}
         /\ NothingRegistered(s)
    /\ exchanges = {}
    /\ DOMAIN queues = {}
    /\ bindings = {}
    /\ \A k \in Keys : dlv[k].stage = "idle"

C11_Witness ==
  \E s \in SubIds :
    /\ config.disabled
    /\ subs[s].status = "disabled"
    /\ "routingKey" \in DOMAIN subs[s].options
    /\ Truthy(subs[s].options.routingKey)
    /\ NothingRegistered(s)

\* The infrastructure assertion of subscription s has failed.
AssertionFailed(s) ==
  subs[s].infra = "failed" \/ (subs[s].infra = "closed" /\ subs[s].infraPc < SetupSteps)

\* C12: a failure at any step of the infrastructure assertion leaves the
\* registration in place (the decorated handler is registered, nothing is
\* thrown), and the assertion is made once: after the failure no further
\* step runs and no new connection is opened.
C12_AssertionFailureSwallowed ==
  /\ [](\A s \in SubIds :
          AssertionFailed(s) =>
            /\ subs[s].status = "registered"
            /\ subs[s].rabbitConfig # Undef
            /\ subs[s].connects = 1)
  /\ [][\A s \in SubIds :
          AssertionFailed(s) =>
            /\ subs'[s].status = "registered"
            /\ subs'[s].infra \in {"failed", "closed"}
            /\ subs'[s].infraPc = subs[s].infraPc
            /\ subs'[s].connects = subs[s].connects
            /\ exchanges' \ {config.exchange, config.legacyExchange} =
                 exchanges \ {config.exchange, config.legacyExchange}
            /\ (bindings' # bindings \/ queues' # queues) => subs'[s].consuming]_vars

C12_Witness ==
  \E s \in SubIds :
    /\ subs[s].status = "registered"
    /\ subs[s].infra = "closed"
    /\ subs[s].infraPc = 4
    /\ subs[s].connects = 1
    /\ subs[s].consuming

IsLegacyOptions(o) == "routingKey" \in DOMAIN o

\* The queue name the naming convention gives to options o.
ConventionalQueueName(o) ==
  IF IsStr(o.queue) /\ o.queue.v # <<>>
  THEN o.queue.v
  ELSE IF IsLegacyOptions(o)
    THEN <<"l", "e", "g", "a", "c", "y", ".">> \o config.appName \o <<".">> \o o.routingKey.v
    ELSE config.appName \o <<".">> \o o.domain.v \o <<".">> \o o.entity.v
           \o <<".">> \o o.action.v

DotRetry == <<".", "r", "e", "t", "r", "y">>
DotRequeue == <<".", "r", "e", "q", "u", "e", "u", "e">>
DotError == <<".", "e", "r", "r", "o", "r">>

\* C13: the planned queue name is the custom name if given, else
\* appName.domain.entity.action (standard) or legacy.appName.routingKey
\* (legacy); retry exchange and retry queue are queueName.retry, the requeue
\* exchange queueName.requeue, error exchange and error queue
\* queueName.error; the broker entities are asserted under these names.
C13_QueueNaming ==
  \A s \in SubIds :
    IsRegistered(s) =>
      LET qc == subs[s].queueConfig
          name == ConventionalQueueName(subs[s].options)
      IN /\ qc.queueName = name
         /\ qc.retryExchangeName = name \o DotRetry
         /\ qc.retryQueueName = name \o DotRetry
         /\ qc.requeueExchangeName = name \o DotRequeue
         /\ qc.errorExchangeName = name \o DotError
         /\ qc.errorQueueName = name \o DotError
         /\ subs[s].rabbitConfig.queue = name
         /\ subs[s].infraPc = SetupSteps =>
              /\ {name \o DotRetry, name \o DotRequeue, name \o DotError} \subseteq exchanges
              /\ {name, name \o DotRetry, name \o DotError} \subseteq DOMAIN queues

C13_Witness ==
  \E s \in SubIds :
    /\ IsRegistered(s)
    /\ ~IsLegacyOptions(subs[s].options)
    /\ subs[s].options.queue = Undef
    /\ subs[s].options.entity = Str(Star)
    /\ subs[s].infraPc = SetupSteps
    /\ subs[s].queueConfig.queueName =
         <<"a", "p", "p", ".", "P", "a", "y", ".", "*", ".",
           "c", "r", "e", "a", "t", "e", "d">>

\* C14: whatever queue overrides the caller supplies, the main queue's
\* x-dead-letter-exchange argument is the subscription's retry exchange name,
\* and every other caller-supplied argument is kept.
C14_DeadLetterExchangeSystemControlled ==
  \A s \in SubIds :
    IsRegistered(s) =>
      LET args == subs[s].queueOptions.mainQueueOptions.arguments
          over == subs[s].options.queueOptions
      IN /\ args["x-dead-letter-exchange"] = Str(subs[s].queueConfig.retryExchangeName)
         /\ over # Undef =>
              \A a \in DOMAIN over \ {"x-dead-letter-exchange"} : args[a] = over[a]

\* The explicit value where given, else the system-wide default.
ExplicitOr(explicit, default) == IF explicit \in {Undef, Null} THEN default ELSE explicit

EffectiveMaxRetries(s) ==
  ExplicitOr(IF subs[s].options.retry = Undef THEN Undef ELSE subs[s].options.retry.count,
             config.defaultMaxRetries)

EffectiveDelayMs(s) ==
  ExplicitOr(IF subs[s].options.retry = Undef THEN Undef ELSE subs[s].options.retry.delayMs,
             config.defaultRetryDelayMs)

\* The planned retry policy and retry queue of subscription s are the
\* effective ones, each field resolved on its own.
PolicyResolved(s) ==
  /\ subs[s].queueConfig.retryPolicy =
       [maxRetries |-> EffectiveMaxRetries(s), delayMs |-> EffectiveDelayMs(s)]
  /\ subs[s].queueOptions.retryQueueOptions.durable
  /\ subs[s].queueOptions.retryQueueOptions.arguments =
       [a \in {"x-message-ttl", "x-dead-letter-exchange"} |->
          IF a = "x-message-ttl" THEN EffectiveDelayMs(s)
          ELSE Str(subs[s].queueConfig.requeueExchangeName)]
  /\ RetryQueue(s) \in DOMAIN queues =>
       /\ queues[RetryQueue(s)].durable
       /\ Arg(RetryQueue(s), "x-message-ttl") = EffectiveDelayMs(s)
       /\ Arg(RetryQueue(s), "x-dead-letter-exchange") =
            Str(subs[s].queueConfig.requeueExchangeName)

\* C15: the effective retry policy is the explicit count and delay where
\* given (an explicit 0 included) and the defaults otherwise, field by field;
\* the retry queue is durable with TTL = effective delay and dead-letter
\* exchange = requeue exchange; and with effective max retries 0 the first
\* non-terminal failure goes to the error exchange without a retry.
C15_EffectiveRetryPolicy ==
  \A s \in SubIds :
    IsRegistered(s) =>
      /\ PolicyResolved(s)
      /\ \A m \in MsgIds :
           LET d == dlv[<<s, m>>] IN
           (EffectiveMaxRetries(s) = Num(0) /\ d.seen = {"throw"}) =>
             /\ d.nacks = 0
             /\ d.deliveries = 1
             /\ d.stage = "failed" => IsNonRetryable(d.error)
             /\ d.stage \in {"failed", "acked"}

\* The first part of C15 alone: resolution of the policy and the retry queue.
C15_PolicyResolved == \A s \in SubIds : IsRegistered(s) => PolicyResolved(s)

\* The two strings are equal up to letter case.
SameLetters(a, b) ==
  /\ Len(a) = Len(b)
  /\ \A i \in 1..Len(a) :
       \/ a[i] = b[i]
       \/ (a[i] \in UpperCase /\ LowerChar(a[i]) = b[i])
       \/ (b[i] \in UpperCase /\ LowerChar(b[i]) = a[i])

\* The key is three lower-case parts joined by dots, equal to the given
\* parts up to letter case.
LowerDotJoined(key, d, e, a) ==
  /\ \A i \in 1..Len(key) : key[i] \notin UpperCase
  /\ Len(split(key)) = 3
  /\ SameLetters(split(key)[1], d)
  /\ SameLetters(split(key)[2], e)
  /\ SameLetters(split(key)[3], a)

\* C16: the routing key of a standard subscription and of a published
\* event is the three parts lowercased and dot-joined; a publish and a
\* subscription over the same domain, entity and action (up to letter case)
\* derive the same key, and the published key is routed to the
\* subscription's queue.
C16_SameRoutingKey ==
  /\ \A s \in SubIds :
       IsRegistered(s) =>
         LowerDotJoined(subs[s].queueConfig.routingKey, subs[s].options.domain.v,
                        subs[s].options.entity.v, subs[s].options.action.v)
  /\ \A i \in 1..Len(pubLog) :
       LET po == pubCall.options
           pd == OrElse(po.domain, config.defaultDomain).v
       IN /\ LowerDotJoined(pubLog[i].routingKey, pd, po.entityType.v, po.eventType.v)
          /\ \A s \in SubIds :
               (IsRegistered(s)
                  /\ SameLetters(subs[s].options.domain.v, pd)
                  /\ SameLetters(subs[s].options.entity.v, po.entityType.v)
                  /\ SameLetters(subs[s].options.action.v, po.eventType.v)) =>
                 /\ pubLog[i].routingKey = subs[s].queueConfig.routingKey
                 /\ pubLog[i].routingKey = subs[s].rabbitConfig.routingKey
                 /\ TopicMatch(subs[s].rabbitConfig.routingKey, pubLog[i].routingKey)
                 /\ subs[s].consuming =>
                      MainQueue(s) \in Route(pubLog[i].exchange, pubLog[i].routingKey)

C16_Witness ==
  \E s \in SubIds :
    /\ IsRegistered(s)
    /\ subs[s].consuming
    /\ subs[s].options.domain = Str(PAY)
    /\ subs[s].options.entity = Str(USER)
    /\ subs[s].options.action = Str(Created_)
    /\ Len(pubLog) = 1
    /\ pubCall.options.domain = Str(Pay)
    /\ pubCall.options.entityType = Str(User)
    /\ pubLog[1].routingKey = KeyUser
    /\ MainQueue(s) \in Route(MainExchange, KeyUser)

\* C17: a legacy subscription validates nothing: whatever the payload and
\* the headers of a delivery (none included), the handler is invoked with
\* the raw payload and the raw headers, and no validation failure is
\* recorded.
C17_LegacySkipsValidation ==
  \A k \in Keys :
    LET s == k[1]
        d == dlv[k]
    IN (subs[s].eventType = "legacy" /\ d.stage \notin {"idle", "delivered"}) =>
         /\ d.validationFailure = "none"
         /\ d.outcome \in Outcomes
         /\ d.invoked = d.deliveries
         /\ d.args = <<d.msg.payload, d.msg.headers>>
         /\ d.statuses[1] = "received"
         /\ d.statuses[2] \in {"processed", "failed"}
         /\ d.statuses[2] = "failed" => (d.outcome # "ok" /\ Len(d.statuses) = 3)

C17_Witness ==
  \E k \in Keys :
    /\ dlv[k].stage = "acked"
    /\ subs[k[1]].eventType = "legacy"
    /\ dlv[k].msg.headers.actor = Undef
    /\ dlv[k].msg.payload = [data |-> Undef, schema_ref |-> Undef]
    /\ dlv[k].outcome = "ok"
    /\ dlv[k].args = <<dlv[k].msg.payload, dlv[k].msg.headers>>
    /\ dlv[k].statuses = <<"received", "processed">>

\* C18: the metric labels of a standard subscription are the first word,
\* the second word and the rest of the live routing key when it has at
\* least three words, and the declared domain, entity and action otherwise;
\* those of a legacy subscription are unknown/unknown/unknown.
C18_MetricLabels ==
  \A k \in Keys :
    LET s == k[1]
        d == dlv[k]
        words == split(d.msg.rk)
        o == subs[s].options
    IN d.stage \notin {"idle", "delivered"} =>
         IF subs[s].eventType = "legacy"
         THEN d.labels = [domain |-> Str(<<"u", "n", "k", "n", "o", "w", "n">>),
                          entity |-> Str(<<"u", "n", "k", "n", "o", "w", "n">>),
                          action |-> Str(<<"u", "n", "k", "n", "o", "w", "n">>)]
         ELSE IF Len(words) >= 3
         THEN /\ d.labels.domain = Str(words[1])
              /\ d.labels.entity = Str(words[2])
              /\ d.msg.rk = words[1] \o <<".">> \o words[2] \o <<".">> \o d.labels.action.v
         ELSE d.labels = [domain |-> o.domain, entity |-> o.entity, action |-> o.action]

C18_Witness ==
  \E k \in Keys :
    /\ dlv[k].stage = "acked"
    /\ subs[k[1]].eventType = "standard"
    /\ subs[k[1]].options.entity = Str(<<"#">>)
    /\ dlv[k].msg.rk = <<"p", "a", "y", ".", "c", "r", "e", "a", "t", "e", "d">>
    /\ dlv[k].labels = [domain |-> Str(Pay), entity |-> Str(<<"#">>), action |-> Str(created)]

\* A second case of C18: a key of four words gives a two-word action.
C18_LongKeyReached ==
  \E k \in Keys :
    /\ dlv[k].stage = "acked"
    /\ subs[k[1]].eventType = "standard"
    /\ dlv[k].labels.action = Str(<<"v", "1", ".", "c", "r", "e", "a", "t", "e", "d">>)

\* C19: failed processing is retried with exponential backoff: the first
\* wait is the configured delayMs and the wait before each further retry
\* of a message is longer than the wait before the previous one.
C19_ExponentialBackoff ==
  \A k \in Keys :
    LET w == dlv[k].msg.waits IN
    dlv[k].stage # "idle" =>
      /\ Len(w) >= 1 => w[1] = subs[k[1]].queueConfig.retryPolicy.delayMs
      /\ \A i \in 1..(Len(w) - 1) : w[i + 1].v > w[i].v

\* What the code does instead (C19): every wait of a message is the one
\* delayMs the retry queue was declared with.
C19_FixedDelay ==
  \A k \in Keys :
    dlv[k].stage # "idle" =>
      \A i \in 1..Len(dlv[k].msg.waits) :
        dlv[k].msg.waits[i] = subs[k[1]].queueConfig.retryPolicy.delayMs

\* The copy of message k[2] in the subscription's error queue was published
\* by the last delivery, which is over.
ErrorCopyOf(k) ==
  /\ dlv[k].stage = "acked"
  /\ dlv[k].published # <<>>
  /\ InQueue(ErrorQueue(k[1]), k[2])

\* The parts of C20 that do not depend on the wrapped error: content,
\* properties and original headers kept, the two diagnostic headers added,
\* the terminal marker exactly for a NonRetryableError.
ErrorCopyKeeps(k) ==
  LET pub == CopyIn(ErrorQueue(k[1]), k[2])
      orig == dlv[k].msg
      e == dlv[k].published[1]
  IN /\ pub.payload = orig.payload
     /\ pub.id = orig.id
     /\ pub.headers.actor = orig.headers.actor
     /\ pub.headers.xdeath = orig.headers.xdeath
     /\ pub.headers.firstDeathQueue = orig.headers.firstDeathQueue
     /\ pub.headers.latestTimestamp # Undef
     /\ IsStr(pub.headers.originalError)
     /\ (pub.headers.nonRetryable = Obj) <=> (e.name = "NonRetryableError")
     /\ pub.headers.nonRetryable \in {Obj, Undef}
     /\ (e.name # "NonRetryableError" \/ e.originalError = Undef) =>
          pub.headers.originalError = Str(e.message)

\* C20 as stated: every message published to the error exchange keeps the
\* original headers, content and properties, gains latest-retry-timestamp
\* and original-error-message, carries x-non-retryable exactly for a
\* NonRetryableError, and for a NonRetryableError that wraps another error
\* records the wrapped error's message.
C20_ErrorExchangeMessage ==
  \A k \in Keys :
    ErrorCopyOf(k) =>
      /\ ErrorCopyKeeps(k)
      /\ LET e == dlv[k].published[1] IN
         (e.name = "NonRetryableError" /\ e.originalError # Undef) =>
           CopyIn(ErrorQueue(k[1]), k[2]).headers.originalError
             = Str(e.originalError.message)

\* C20 as the code has it: the recorded message is the wrapped error's
\* message when that is not empty, and the NonRetryableError's own message
\* otherwise.
C20_ErrorExchangeMessageOrOwn ==
  \A k \in Keys :
    ErrorCopyOf(k) =>
      /\ ErrorCopyKeeps(k)
      /\ LET e == dlv[k].published[1] IN
         (e.name = "NonRetryableError" /\ e.originalError # Undef) =>
           CopyIn(ErrorQueue(k[1]), k[2]).headers.originalError
             = IF e.originalError.message # "" THEN Str(e.originalError.message)
               ELSE Str(e.message)

C20_Witness ==
  \E k \in Keys :
    /\ ErrorCopyOf(k)
    /\ dlv[k].published[1].name = "NonRetryableError"
    /\ dlv[k].published[1].originalError # Undef
    /\ dlv[k].published[1].originalError.message = ""
    /\ CopyIn(ErrorQueue(k[1]), k[2]).headers.originalError = Str("retry exhausted")
    /\ CopyIn(ErrorQueue(k[1]), k[2]).headers.nonRetryable = Obj
    /\ Len(CopyIn(ErrorQueue(k[1]), k[2]).headers.xdeath) = 2

\* Further cases of C20: a wrapped error with a message, and an error that
\* is not a NonRetryableError (thrown by the channel).
C20_WrappedReached ==
  \E k \in Keys :
    /\ ErrorCopyOf(k)
    /\ dlv[k].published[1].name = "NonRetryableError"
    /\ CopyIn(ErrorQueue(k[1]), k[2]).headers.originalError = Str("handler failed")

C20_UnmarkedReached ==
  \E k \in Keys :
    /\ ErrorCopyOf(k)
    /\ dlv[k].published[1].name = "Error"
    /\ CopyIn(ErrorQueue(k[1]), k[2]).headers.nonRetryable = Undef

C23_WithoutPrevReached ==
  /\ pubCall.result = "resolved"
  /\ pubCall.options.prevData = Undef
  /\ pubLog[1].content = [data |-> Obj,
                          schema_ref |-> Str(<<"U", "s", "e", "r", "@", "v", "2">>)]

\* C24: the attempt number of a delivery is an integer >= 1: 1 when the
\* dead-letter history is empty, count + 1 of the (first) history entry
\* whose queue is the x-first-death-queue of the message, and 1 when no
\* entry matches or the header is absent.
C24_CurrentAttempt ==
  \A k \in Keys :
    LET d == dlv[k]
        xd == d.msg.headers.xdeath
        first == d.msg.headers.firstDeathQueue
        matches == {i \in 1..Len(xd) : first # Undef /\ xd[i].queue = first.v}
    IN d.stage = "delivered" =>
         /\ d.attempt \in Nat /\ d.attempt >= 1
         /\ xd = <<>> => d.attempt = 1
         /\ matches = {} => d.attempt = 1
         /\ \A i \in matches :
              (\A j \in matches : i <= j) => d.attempt = xd[i].count + 1

C24_Witness ==
  \E k \in Keys :
    /\ dlv[k].stage = "delivered"
    /\ dlv[k].msg.headers.firstDeathQueue = Str(<<"q", "1">>)
    /\ Len(dlv[k].msg.headers.xdeath) = 2
    /\ dlv[k].msg.headers.xdeath[1].count = 2
    /\ dlv[k].msg.headers.xdeath[2].count = 5
    /\ dlv[k].attempt = 3

\* Further cases of C24: a history without a matching entry, and one
\* without the x-first-death-queue header.
C24_NoMatchReached ==
  \E k \in Keys :
    /\ dlv[k].stage = "delivered"
    /\ dlv[k].msg.headers.firstDeathQueue = Str(<<"q", "1">>)
    /\ Len(dlv[k].msg.headers.xdeath) = 1
    /\ dlv[k].attempt = 1

C24_NoHeaderReached ==
  \E k \in Keys :
    /\ dlv[k].stage = "delivered"
    /\ dlv[k].msg.headers.firstDeathQueue = Undef
    /\ Len(dlv[k].msg.headers.xdeath) = 2
    /\ dlv[k].attempt = 1

\* C25: every error that leaves the pipeline is a NonRetryableError or a
\* RetryError carrying the attempt number of the delivery; a
\* NonRetryableError of the handler is passed on unchanged and every other
\* handler error is wrapped, so no failure with retry budget left is
\* published to the error exchange.
C25_PipelineErrors ==
  \A k \in Keys :
    LET d == dlv[k]
        N == PipelineMaxRetries(subs[k[1]].options)
    IN /\ d.stage = "failed" =>
            /\ d.error.name \in {"NonRetryableError", "RetryError"}
            /\ d.error.name = "RetryError" =>
                 (d.error.attemptNumber = d.attempt /\ d.error.shouldRetry)
            /\ d.outcome = "terminal" =>
                 d.error = [name |-> "NonRetryableError", shouldRetry |-> FALSE,
                            message |-> "business rule", originalError |-> Undef]
            /\ d.outcome = "throw" =>
                 d.error.originalError = [name |-> "Error", message |-> "handler failed"]
       /\ (d.stage = "acked" /\ d.published # <<>>) =>
            /\ d.published[1].name = "NonRetryableError"
            /\ (d.outcome = "throw" /\ IsNum(N)) => d.attempt > N.v

C25_Witness ==
  \E k \in Keys :
    /\ dlv[k].stage = "failed"
    /\ dlv[k].outcome = "throw"
    /\ dlv[k].attempt = 2
    /\ dlv[k].error.name = "RetryError"
    /\ dlv[k].error.attemptNumber = 2

\* A further case of C25: the budget is used up and the wrapped error goes
\* to the error exchange.
C25_ExhaustedReached ==
  \E k \in Keys :
    /\ dlv[k].stage = "acked"
    /\ dlv[k].outcome = "throw"
    /\ dlv[k].attempt = 3
    /\ dlv[k].published # <<>>

\* The number of times status x was emitted in the sequence.
Emitted(statuses, x) == Cardinality({i \in 1..Len(statuses) : statuses[i] = x})

C26_RetriedReached ==
  \E k \in Keys : dlv[k].statuses = <<"received", "failed", "retried">>

C26_ExhaustedReached ==
  \E k \in Keys :
    /\ dlv[k].outcome = "throw"
    /\ dlv[k].statuses = <<"received", "failed", "sent_to_error_exchange">>

C26_InvalidReached ==
  \E k \in Keys :
    /\ dlv[k].validationFailure # "none"
    /\ dlv[k].statuses = <<"received", "failed", "failed", "sent_to_error_exchange">>

\* The bindings on the three exchanges of subscription s.
InfraBindings(s) ==
  {b \in bindings : b.exchange \in {subs[s].queueConfig.retryExchangeName,
                                    subs[s].queueConfig.requeueExchangeName,
                                    subs[s].queueConfig.errorExchangeName}}

\* C28: the infrastructure assertion creates exactly three bindings (retry
\* queue to retry exchange with '#', main queue to requeue exchange and
\* error queue to error exchange with the subscription's routing key), each
\* only after its queue and its exchange were asserted, and a failure at a
\* step leaves the later steps undone.
C28_ThreeBindings ==
  \A s \in SubIds :
    subs[s].status = "registered" =>
      LET qc == subs[s].queueConfig
          pc == subs[s].infraPc
          retryBinding == [exchange |-> qc.retryExchangeName,
                           queue |-> qc.retryQueueName, pattern |-> <<"#">>]
          mainBinding == [exchange |-> qc.requeueExchangeName,
                          queue |-> qc.queueName, pattern |-> qc.routingKey]
          errorBinding == [exchange |-> qc.errorExchangeName,
                           queue |-> qc.errorQueueName, pattern |-> qc.routingKey]
      IN /\ InfraBindings(s) \subseteq {retryBinding, mainBinding, errorBinding}
         /\ \A b \in InfraBindings(s) :
              b.exchange \in exchanges /\ b.queue \in DOMAIN queues
         /\ (retryBinding \in bindings) <=> (pc >= 3)
         /\ (mainBinding \in bindings) <=> (pc >= 6)
         /\ (errorBinding \in bindings) <=> (pc >= 9)
         /\ (qc.retryExchangeName \in exchanges) <=> (pc >= 1)
         /\ (qc.retryQueueName \in DOMAIN queues) <=> (pc >= 2)
         /\ (qc.requeueExchangeName \in exchanges) <=> (pc >= 4)
         /\ (qc.errorExchangeName \in exchanges) <=> (pc >= 7)
         /\ (qc.errorQueueName \in DOMAIN queues) <=> (pc >= 8)
         /\ pc >= 5 => qc.queueName \in DOMAIN queues
         /\ (subs[s].infra = "closed" /\ ~AssertionFailed(s)) =>
              InfraBindings(s) = {retryBinding, mainBinding, errorBinding}
         /\ subs[s].infra = "failed" => pc < 9

C28_Witness ==
  \E s \in SubIds :
    /\ subs[s].status = "registered"
    /\ subs[s].infra = "closed"
    /\ subs[s].infraPc = 9
    /\ Cardinality(InfraBindings(s)) = 3
    /\ subs[s].consuming

\* A further case of C28: the assertion failed after the first binding.
C28_FailedReached ==
  \E s \in SubIds :
    /\ subs[s].status = "registered"
    /\ subs[s].infra = "closed"
    /\ subs[s].infraPc = 4
    /\ Cardinality(InfraBindings(s)) = 1
    /\ subs[s].consuming

\* The broker topology one registration of subscription s produces: the
\* two configured exchanges and the subscription's three, its three queues
\* as planned, the consumer's binding and the three of the assertion.
SingleTopology(s) ==
  LET qc == subs[s].queueConfig
      qo == subs[s].queueOptions
      planned(opts) == [durable |-> opts.durable, arguments |-> opts.arguments,
                        msgs |-> <<>>]
  IN [exchanges |-> {config.exchange, config.legacyExchange, qc.retryExchangeName,
                     qc.requeueExchangeName, qc.errorExchangeName},
      queues |-> (qc.queueName :> planned(qo.mainQueueOptions))
                   @@ (qc.retryQueueName :> planned(qo.retryQueueOptions))
                   @@ (qc.errorQueueName :> planned(qo.errorQueueOptions)),
      bindings |-> {[exchange |-> config.exchange, queue |-> qc.queueName,
                     pattern |-> qc.routingKey],
                    [exchange |-> qc.retryExchangeName, queue |-> qc.retryQueueName,
                     pattern |-> <<"#">>],
                    [exchange |-> qc.requeueExchangeName, queue |-> qc.queueName,
                     pattern |-> qc.routingKey],
                    [exchange |-> qc.errorExchangeName, queue |-> qc.errorQueueName,
                     pattern |-> qc.routingKey]}]

\* Every instance has registered, asserted and started its consumer.
AllStarted ==
  \A s \in Instances :
    subs[s].status = "registered" /\ subs[s].infra = "closed" /\ subs[s].consuming

\* C21: concurrent first-time registrations of the same subscription, and
\* each assertion racing the consumer's creation of the main queue, are
\* safe: in every interleaving no assertion and no consumer start fails,
\* and the final topology is that of a single registration.
C21_ConcurrentRegistrationSafe ==
  /\ \A s \in Instances :
       subs[s].status = "registered" =>
         /\ subs[s].infra # "failed"
         /\ subs[s].infra = "closed" => subs[s].infraPc = 9
         /\ subs[s].rabbitConfig.queue \in DOMAIN queues =>
              /\ queues[subs[s].rabbitConfig.queue].durable
                   = subs[s].rabbitConfig.queueOptions.durable
              /\ queues[subs[s].rabbitConfig.queue].arguments
                   = subs[s].rabbitConfig.queueOptions.arguments
              /\ queues[subs[s].rabbitConfig.queue].arguments
                   = subs[s].queueOptions.mainQueueOptions.arguments
  /\ AllStarted =>
       \A s \in Instances :
         /\ exchanges = SingleTopology(s).exchanges
         /\ queues = SingleTopology(s).queues
         /\ bindings = SingleTopology(s).bindings

C21_Witness ==
  /\ AllStarted
  /\ Cardinality(bindings) = 4
  /\ Cardinality(DOMAIN queues) = 3

\* A further case of C21: a consumer created the main queue before any
\* assertion reached it, and an assertion then asserted it again.
C21_ConsumerFirstReached ==
  /\ subs[2].status = "registered" /\ subs[2].consuming /\ subs[2].infraPc = 0
  /\ subs[1].status = "registered" /\ subs[1].infraPc = 5 /\ ~subs[1].consuming

\* Instance s ran its whole infrastructure assertion without a failure.
AssertedAll(s) ==
  subs[s].status = "registered" /\ subs[s].infra = "closed" /\ subs[s].infraPc = 9

\* Planning again, now, from the descriptor instance s registered with.
PlannedAgain(s) ==
  LET qc == buildQueueConfig(subs[s].options)
      qo == buildQueueOptions(subs[s].options, qc)
  IN [queueConfig |-> qc, queueOptions |-> qo,
      rabbitConfig |-> buildRabbitConfig(config.exchange, qc, qo.mainQueueOptions)]

PlanStable ==
  \A s \in Instances :
    subs[s].status = "registered" =>
      /\ subs[s].queueConfig = PlannedAgain(s).queueConfig
      /\ subs[s].queueOptions = PlannedAgain(s).queueOptions
      /\ subs[s].rabbitConfig = PlannedAgain(s).rabbitConfig
      /\ \A i \in Instances :
           subs[i].status = "registered" /\ subs[i].options = subs[s].options =>
             /\ subs[i].queueConfig = subs[s].queueConfig
             /\ subs[i].queueOptions = subs[s].queueOptions

SecondRunChangesNothing ==
  \A s, i \in Instances :
    (s # i /\ AssertedAll(i) /\ subs[s].status = "registered"
       /\ subs[s].infra = "connecting" /\ subs'[s].infraPc # subs[s].infraPc) =>
      /\ exchanges' = exchanges
      /\ queues' = queues
      /\ bindings' = bindings
      /\ subs'[s].infra = "connecting"

C27_SecondRunDoneReached ==
  /\ AssertedAll(1) /\ AssertedAll(2)
  /\ ~subs[1].consuming /\ ~subs[2].consuming
  /\ Cardinality(bindings) = 3 /\ Cardinality(DOMAIN queues) = 3

\* The places a delivered message can be in, as a sequence of booleans.
Places(s, m) ==
  <<InQueue(MainQueue(s), m),
    dlv[<<s, m>>].stage \in {"delivered", "failed"},
    InQueue(RetryQueue(s), m),
    InQueue(ErrorQueue(s), m),
    dlv[<<s, m>>].stage = "acked" /\ dlv[<<s, m>>].error = NoError>>

PlaceCount(s, m) == Cardinality({i \in 1..5 : Places(s, m)[i]})

\* C29: a message that has been delivered to a subscriber is in exactly one
\* of the main queue, processing, the retry queue, the error queue or
\* successfully processed, also when the consumer runs while the
\* infrastructure assertion has failed or has not finished; in particular
\* a nacked message is in the retry queue until its TTL expires.
C29_NoDeliveredMessageLost ==
  \A s \in SubIds, m \in MsgIds :
    dlv[<<s, m>>].deliveries >= 1 => PlaceCount(s, m) = 1

\* What holds of C29 in every schedule: a delivered message is never in two
\* places at once.
C29_AtMostOnePlace ==
  \A s \in SubIds, m \in MsgIds :
    dlv[<<s, m>>].deliveries >= 1 => PlaceCount(s, m) <= 1

\* The lost message: nacked by a consumer whose retry exchange does not
\* exist, and in no queue.
C29_LostReached ==
  \E s \in SubIds, m \in MsgIds :
    /\ dlv[<<s, m>>].stage = "nacked"
    /\ dlv[<<s, m>>].nacks = 1
    /\ subs[s].queueConfig.retryExchangeName \notin exchanges
    /\ PlaceCount(s, m) = 0

\* The number of copies of message m in queue q.
Copies(q, m) ==
  IF q \in DOMAIN queues
  THEN Cardinality({i \in 1..Len(queues[q].msgs) : queues[q].msgs[i].id = m})
  ELSE 0

\* C30: retries are isolated per subscriber.  Of two subscriptions with
\* different queue names that receive the same event, each is redelivered
\* the message only after its own nack, its retry and error queues hold
\* only what its own error handler sent there, and a subscription whose
\* handler succeeded is invoked exactly once and none of its queues holds
\* the message afterwards.
C30_RetriesIsolated ==
  \A s \in Instances, m \in MsgIds :
    LET d == dlv[<<s, m>>] IN
    subs[s].status = "registered" =>
      /\ d.deliveries <= d.nacks + 1
      /\ Copies(MainQueue(s), m) <= 1
      /\ (InQueue(MainQueue(s), m) /\ d.deliveries >= 1) => d.stage = "nacked"
      /\ InQueue(RetryQueue(s), m) => (d.stage = "nacked" /\ d.nacks >= 1)
      /\ InQueue(ErrorQueue(s), m) => d.errPublishes >= 1
      /\ d.seen = {"ok"} =>
           /\ d.invoked = 1
           /\ d.deliveries = 1
           /\ ~InQueue(MainQueue(s), m)
           /\ ~InQueue(RetryQueue(s), m)
           /\ ~InQueue(ErrorQueue(s), m)

\* Subscription 1 failed and was redelivered the message; subscription 2
\* handled it once.
C30_Witness ==
  /\ \A s \in Instances : subs[s].consuming
  /\ MainQueue(1) # MainQueue(2)
  /\ dlv[<<1, 1>>].seen = {"throw"} /\ dlv[<<1, 1>>].deliveries = 2
  /\ dlv[<<1, 1>>].stage = "delivered"
  /\ dlv[<<2, 1>>].seen = {"ok"} /\ dlv[<<2, 1>>].invoked = 1
  /\ dlv[<<2, 1>>].stage = "acked"

\* A further case of C30: the failing subscription's retries are exhausted
\* and the errored copy is in its error queue only.
C30_ErroredReached ==
  /\ \A s \in Instances : subs[s].consuming
  /\ InQueue(ErrorQueue(1), 1) /\ ~InQueue(ErrorQueue(2), 1)
  /\ dlv[<<2, 1>>].seen = {"ok"} /\ dlv[<<2, 1>>].invoked = 1

\* A further case of C30: the wildcard subscription is the one that fails.
C30_OtherFailsReached ==
  /\ \A s \in Instances : subs[s].consuming
  /\ InQueue(RetryQueue(2), 1) /\ ~InQueue(RetryQueue(1), 1)
  /\ dlv[<<1, 1>>].seen = {"ok"} /\ dlv[<<1, 1>>].invoked = 1

\* The tags of delivery (s, m) alone: the service tag of the context the
\* consumer runs in, the subscription's event type, and the trace id of the
\* delivered message when the event is standard and carries one.
OwnTags(s, m) ==
  [service |-> BootContext.named_tags.service,
   event_type |-> subs[s].eventType,
   trace_id |-> IF subs[s].eventType = "standard"
                     /\ Truthy(dlv[<<s, m>>].msg.headers.trace_id)
                THEN dlv[<<s, m>>].msg.headers.trace_id
                ELSE Undef]

\* The tags delivery (s, m) sees: now while it is in progress, at the end
\* of its processing once it has finished.
SeenTags(s, m) ==
  IF dlv[<<s, m>>].stage = "delivered"
  THEN getContext(subs[s].context, dlv[<<s, m>>].ctx)
  ELSE dlv[<<s, m>>].observed

\* C22: each delivery is processed in a context of its own.  The tags a
\* delivery sees, while it is in progress and when it finishes, are the
\* tags of that delivery; its trace id is never the trace id of another
\* delivery, in progress or finished; the context the consumer runs in is
\* never changed by a delivery.
C22_ContextPerDelivery ==
  \A s \in SubIds :
    /\ subs[s].context = BootContext
    /\ \A m \in CtxMsgs :
         dlv[<<s, m>>].deliveries >= 1 =>
           /\ SeenTags(s, m) = OwnTags(s, m)
           /\ \A other \in CtxMsgs \ {m} :
                (dlv[<<s, other>>].deliveries >= 1
                   /\ Truthy(dlv[<<s, other>>].msg.headers.trace_id)) =>
                  SeenTags(s, m).trace_id # dlv[<<s, other>>].msg.headers.trace_id

\* Two deliveries with different trace ids are in progress at once.
C22_Witness ==
  /\ subs[1].eventType = "standard"
  /\ dlv[<<1, 1>>].stage = "delivered" /\ dlv[<<1, 2>>].stage = "delivered"
  /\ SeenTags(1, 1).trace_id = Str(<<"t", "1">>)
  /\ SeenTags(1, 2).trace_id = Str(<<"t", "2">>)

\* A further case of C22: a delivery without a trace id is in progress after
\* a delivery with a trace id has finished.
C22_AfterFinishedReached ==
  /\ subs[1].eventType = "standard"
  /\ dlv[<<1, 1>>].stage = "acked" /\ dlv[<<1, 1>>].observed.trace_id = Str(<<"t", "1">>)
  /\ dlv[<<1, 2>>].stage = "delivered"
  /\ dlv[<<1, 2>>].msg.headers.trace_id = Undef
  /\ SeenTags(1, 2).trace_id = Undef

\* A further case of C22: a legacy delivery takes no trace id from its headers.
C22_LegacyReached ==
  /\ subs[1].eventType = "legacy"
  /\ dlv[<<1, 1>>].stage = "acked"
  /\ dlv[<<1, 1>>].msg.headers.trace_id = Str(<<"t", "1">>)
  /\ dlv[<<1, 1>>].observed.trace_id = Undef
  /\ dlv[<<1, 1>>].observed.event_type = "legacy"

\* The number of completed channel calls op among ops.
Calls(ops, op) == Cardinality({i \in 1..Len(ops) : ops[i] = op})

\* The error handler has run for the current delivery of key k.
Handled(k) ==
  dlv[k].error # NoError /\ dlv[k].stage \in {"acked", "nacked", "unsettled"}

\* C31: for every failed delivery the failure handler settles the message
\* exactly once (one nack or one ack, never both, never twice) and
\* publishes at most one copy to the error exchange, whichever of its own
\* channel calls throws.
C31_SettledOnceOneCopy ==
  \A k \in Keys :
    Handled(k) =>
      /\ Calls(dlv[k].ops, "nack") + Calls(dlv[k].ops, "ack") = 1
      /\ Calls(dlv[k].ops, "publish") <= 1

\* What holds of C31 whatever throws: the message is never settled twice,
\* never both nacked and acked, never nacked after a publish, and the
\* handler runs only for a delivery whose pipeline has finished with an error.
C31_NeverSettledTwice ==
  \A k \in Keys :
    /\ Calls(dlv[k].ops, "nack") + Calls(dlv[k].ops, "ack") <= 1
    /\ Calls(dlv[k].ops, "publish") <= 2
    /\ Calls(dlv[k].ops, "nack") = 1 => dlv[k].ops = <<"nack">>
    /\ Handled(k) => dlv[k].statuses # <<>>

\* The second copy: the ack after the publish threw and the catch block
\* published again before acking.
C31_TwoCopiesReached ==
  \E k \in Keys :
    /\ Handled(k)
    /\ dlv[k].ops = <<"publish", "publish", "ack">>
    /\ dlv[k].errPublishes = 2

ForeignHistory(s, headers) ==
  headers.firstDeathQueue # Undef /\ headers.firstDeathQueue # Str(MainQueue(s))

C32_ForeignHistoryReached ==
  \E s \in SubIds, m \in MsgIds :
    /\ IsRegistered(s)
    /\ dlv[<<s, m>>].stage = "delivered"
    /\ dlv[<<s, m>>].deliveries = 2
    /\ dlv[<<s, m>>].nacks = 1
    /\ dlv[<<s, m>>].attempt = 1
    /\ ForeignHistory(s, dlv[<<s, m>>].msg.headers)

\* A further case of C32: the message is back in the main queue after the
\* TTL expired, with the entry of the retry queue at the head of its history.
C32_RequeuedReached ==
  \E s \in SubIds, m \in MsgIds :
    /\ IsRegistered(s)
    /\ InQueue(MainQueue(s), m)
    /\ dlv[<<s, m>>].nacks = 1
    /\ Head(CopyIn(MainQueue(s), m).headers.xdeath).reason = "expired"

\* C33: the max retries the pipeline's budget check uses at dispatch time
\* equals the max retries resolved for the subscription at registration
\* time, with or without an explicit retry.count.
C33_SameMaxRetries ==
  \A s \in SubIds :
    IsRegistered(s) =>
      PipelineMaxRetries(subs[s].options) = subs[s].queueConfig.retryPolicy.maxRetries

\* What holds of C33: the two values agree for a subscription with an
\* explicit retry.count, and whenever the two defaults are equal.
C33_ExplicitCountAgrees ==
  \A s \in SubIds :
    (IsRegistered(s)
       /\ (~IsNullish(RetryCount(subs[s].options))
             \/ config.pipelineDefaultMaxRetries = config.defaultMaxRetries)) =>
      PipelineMaxRetries(subs[s].options) = subs[s].queueConfig.retryPolicy.maxRetries

\* The disagreement: registered with max retries 0 from the default, while
\* the pipeline reads no number, so the first failure was nacked for retry.
C33_DisagreementReached ==
  \E s \in SubIds, m \in MsgIds :
    /\ IsRegistered(s)
    /\ IsNullish(RetryCount(subs[s].options))
    /\ subs[s].queueConfig.retryPolicy.maxRetries = Num(0)
    /\ ~IsNum(PipelineMaxRetries(subs[s].options))
    /\ dlv[<<s, m>>].stage = "nacked"
    /\ dlv[<<s, m>>].attempt = 1

\* The error handler of delivery (s, m) publishes n copies in this step and
\* each is appended to the subscription's error queue under the
\* subscription's routing key, which the error queue's binding matches.
ErrorPublishLands(s, m) ==
  LET eq == ErrorQueue(s)
      n == dlv'[<<s, m>>].errPublishes - dlv[<<s, m>>].errPublishes
  IN n > 0 =>
       /\ eq \in DOMAIN queues
       /\ Len(queues'[eq].msgs) = Len(queues[eq].msgs) + n
       /\ \A i \in (Len(queues[eq].msgs) + 1)..Len(queues'[eq].msgs) :
            /\ queues'[eq].msgs[i].id = m
            /\ queues'[eq].msgs[i].rk = subs[s].queueConfig.routingKey
            /\ \E b \in bindings :
                 /\ b.exchange = subs[s].queueConfig.errorExchangeName
                 /\ b.queue = eq
                 /\ TopicMatch(b.pattern, queues'[eq].msgs[i].rk)

C34_StarReached ==
  \E s \in SubIds, m \in MsgIds :
    /\ IsRegistered(s)
    /\ subs[s].queueConfig.routingKey = toLowerCase(Pay) \o Dot \o Star \o Dot \o created
    /\ InQueue(ErrorQueue(s), m)
    /\ CopyIn(ErrorQueue(s), m).rk = subs[s].queueConfig.routingKey

\* A further case of C34: the legacy subscription pay.#.
C34_LegacyReached ==
  \E s \in SubIds, m \in MsgIds :
    /\ IsRegistered(s)
    /\ subs[s].eventType = "legacy"
    /\ subs[s].queueConfig.routingKey = PayHash
    /\ InQueue(ErrorQueue(s), m)
    /\ CopyIn(ErrorQueue(s), m).rk = PayHash

\* C35: each delivery increments the 'failed' status counter at most once,
\* also a delivery that fails validation.
C35_FailedAtMostOnce ==
  \A k \in Keys : Emitted(dlv[k].statuses, "failed") <= 1

\* What holds of C35: a delivery whose handler was invoked records 'failed'
\* at most once, a delivery that fails validation records exactly one
\* validation failure and 'failed' exactly twice, and 'failed' is never
\* recorded more than twice.
C35_FailedTwiceOnValidationOnly ==
  \A k \in Keys :
    /\ dlv[k].validationFailure = "none" => Emitted(dlv[k].statuses, "failed") <= 1
    /\ dlv[k].validationFailure # "none" =>
         /\ dlv[k].validationFailure \in {"missing_actor", "invalid_payload"}
         /\ Emitted(dlv[k].statuses, "failed") = 2
         /\ dlv[k].invoked = 0

\* The delivery counted as failed twice: an event without actor.
C35_FailedTwiceReached ==
  \E k \in Keys :
    /\ dlv[k].validationFailure = "missing_actor"
    /\ dlv[k].stage = "failed"
    /\ Emitted(dlv[k].statuses, "failed") = 2

\* C36: every run of the infrastructure assertion, with the setup succeeded
\* or failed, attempts to close the channel and then the connection; a
\* failure closing the channel does not prevent the attempt to close the
\* connection, and no close failure leaves the function.
C36_BothClosesAttempted ==
  \A s \in SubIds :
    /\ subs[s].infra = "closed" =>
         /\ Len(subs[s].closes) = 2
         /\ subs[s].closes[1].target = "channel"
         /\ subs[s].closes[2].target = "connection"
    /\ subs[s].infra # "closed" => subs[s].closes = <<>>
    /\ ~subs[s].rejected

\* The setup failed, closing the channel threw, and the connection was closed.
C36_Witness ==
  \E s \in SubIds :
    /\ subs[s].infra = "closed"
    /\ subs[s].infraPc < SetupSteps
    /\ subs[s].closes = <<[target |-> "channel", threw |-> TRUE],
                          [target |-> "connection", threw |-> FALSE]>>

\* A further case of C36: the setup succeeded and both close calls threw.
C36_BothThrewReached ==
  \E s \in SubIds :
    /\ subs[s].infra = "closed"
    /\ subs[s].infraPc = SetupSteps
    /\ subs[s].closes[1].threw /\ subs[s].closes[2].threw
    /\ ~subs[s].rejected

====
